---- MODULE Spec2Model ----
(***************************************************************************)
(* Model of the ray-traced shortwave correction engine                     *)
(* (src/subgrid_radiation/sun_position_comp.cpp): the vector/triangle      *)
(* kernel, the triangulation indexer, the facade CppTerrain and its three  *)
(* correction engines sw_dir_cor, sw_dir_cor_coherent and                  *)
(* sw_dir_cor_coherent_rp8.                                                *)
(*                                                                         *)
(* Numbers.  A double or float is a fixed-point integer counting           *)
(* thousandths (Scale); every product and quotient is rounded toward zero  *)
(* to that resolution, which stands for the rounding of the IEEE           *)
(* operations.  NaN is a value of its own that every operation propagates  *)
(* and that makes every comparison false, as in IEEE arithmetic.           *)
(***************************************************************************)
EXTENDS Integers, Sequences, FiniteSets, TLC

\* ------------------------------------------------------------------------
\* Fixed-point arithmetic standing for double / float
\* ------------------------------------------------------------------------

Scale == 10 * 10 * 10

NaN == 0 - 2000000000

PInf == 2000000000 - 1

NInf == 0 - PInf

IsNaN(x) == x = NaN

Abs(x) == IF x < 0 THEN 0 - x ELSE x

\* integer quotient rounded toward zero (b # 0)
TDiv(a, b) ==
    IF (a >= 0) = (b > 0) THEN Abs(a) \div Abs(b) ELSE 0 - (Abs(a) \div Abs(b))

IsInf(x) == x = PInf \/ x = NInf

Sign(x) == IF x < 0 THEN 0 - 1 ELSE IF x > 0 THEN 1 ELSE 0

\* the infinity of the given sign; NaN for sign 0 (inf * 0, inf - inf)
InfOf(sg) == IF sg > 0 THEN PInf ELSE IF sg < 0 THEN NInf ELSE NaN

Add(a, b) ==
    IF IsNaN(a) \/ IsNaN(b) THEN NaN
    ELSE IF IsInf(a) /\ IsInf(b) THEN (IF a = b THEN a ELSE NaN)
    ELSE IF IsInf(a) THEN a
    ELSE IF IsInf(b) THEN b
    ELSE a + b

Neg(a) == IF IsNaN(a) THEN NaN ELSE 0 - a

Sub(a, b) == Add(a, Neg(b))

Mul(a, b) ==
    IF IsNaN(a) \/ IsNaN(b) THEN NaN
    ELSE IF IsInf(a) \/ IsInf(b) THEN InfOf(Sign(a) * Sign(b))
    ELSE TDiv(a * b, Scale)

\* IEEE division: 0/0 and inf/inf are NaN, x/0 is an infinity, x/inf is 0
Div(a, b) ==
    IF IsNaN(a) \/ IsNaN(b) THEN NaN
    ELSE IF IsInf(a) THEN (IF IsInf(b) THEN NaN
                           ELSE InfOf(Sign(a) * (IF b < 0 THEN 0 - 1 ELSE 1)))
    ELSE IF IsInf(b) THEN 0
    ELSE IF b = 0 THEN InfOf(Sign(a))
    ELSE TDiv(a * Scale, b)

\* comparisons: false as soon as an operand is NaN
Leq(a, b) == ~IsNaN(a) /\ ~IsNaN(b) /\ a <= b

Lt(a, b) == ~IsNaN(a) /\ ~IsNaN(b) /\ a < b

Gt(a, b) == ~IsNaN(a) /\ ~IsNaN(b) /\ a > b

\* std::min(a, b): (b < a) ? b : a, so a NaN first argument is returned
StdMin(a, b) == IF Lt(b, a) THEN b ELSE a

\* std::max(a, b): (a < b) ? b : a
StdMax(a, b) == IF Lt(a, b) THEN b ELSE a

RECURSIVE IsqrtIter(_, _, _)
IsqrtIter(n, lo, hi) ==
    IF lo >= hi THEN lo
    ELSE LET mid == (lo + hi + 1) \div 2
         IN  IF mid * mid <= n THEN IsqrtIter(n, mid, hi)
             ELSE IsqrtIter(n, lo, mid - 1)

\* largest r with r * r <= n, as a function of the value n
IsqrtOf[n \in Nat] == IsqrtIter(n, 0, 46340)

Isqrt(n) == IsqrtOf[n]

\* sqrt(x * x + y * y + z * z): the squares are summed exactly and the root
\* is rounded once
Hypot3(x, y, z) ==
    IF IsNaN(x) \/ IsNaN(y) \/ IsNaN(z) THEN NaN
    ELSE IF IsInf(x) \/ IsInf(y) \/ IsInf(z) THEN PInf
    ELSE Isqrt(x * x + y * y + z * z)

\* M_PI
Pi == 3142

HalfPi == TDiv(Pi, 2)

\* sine and cosine kernels on [-pi/4, pi/4] (truncated power series)
SinPoly(x, x2) ==
    x - TDiv(Mul(x2, x), 6) + TDiv(Mul(Mul(x2, x), x2), 120)

SinK(x) == SinPoly(x, Mul(x, x))

CosPoly(x2) ==
    Scale - TDiv(x2, 2) + TDiv(Mul(x2, x2), 24)
        - TDiv(Mul(Mul(x2, x2), x2), 720)

CosK(x) == CosPoly(Mul(x, x))

\* cos for an argument in [-pi, pi], reduced to the kernels' range
Cos(x) ==
    IF IsNaN(x) \/ IsInf(x) THEN NaN
    ELSE LET a == Abs(x)
         IN  IF a <= TDiv(HalfPi, 2) THEN CosK(a)
             ELSE IF a <= HalfPi + TDiv(HalfPi, 2) THEN SinK(HalfPi - a)
             ELSE 0 - CosK(Pi - a)

\* sin(x) = cos(x - pi/2), for an argument in [-pi/2, 3 pi/2]
Sin(x) == IF IsNaN(x) \/ IsInf(x) THEN NaN ELSE Cos(x - HalfPi)

Tan(x) == Div(Sin(x), Cos(x))

RECURSIVE AcosIter(_, _, _)
AcosIter(d, lo, hi) ==
    IF lo >= hi THEN lo
    ELSE LET mid == (lo + hi) \div 2
         IN  IF Cos(mid) <= d THEN AcosIter(d, lo, mid)
             ELSE AcosIter(d, mid + 1, hi)

\* acos: the smallest angle of [0, pi] whose cosine is at most d; NaN
\* outside [-1, 1]
AcosOf[d \in Int] ==
    IF IsNaN(d) \/ d > Scale \/ d < 0 - Scale THEN NaN
    ELSE AcosIter(d, 0, Pi)

Acos(d) == AcosOf[d]

\* natural logarithm near 1 and exponential near 0 (truncated power series)
Ln(v) ==
    LET z == v - Scale
        z2 == Mul(z, z)
    IN  z - TDiv(z2, 2) + TDiv(Mul(z2, z), 3)

Exp(w) ==
    LET w2 == Mul(w, w)
    IN  Scale + w + TDiv(w2, 2) + TDiv(Mul(w2, w), 6)

\* pow(v, e) for a base in (0, 1]
Pow(v, e) ==
    IF IsNaN(v) \/ IsNaN(e) THEN NaN ELSE Exp(Mul(e, Ln(v)))

\* ------------------------------------------------------------------------
\* Auxiliary functions of the source
\* ------------------------------------------------------------------------

deg2rad(ang) == Mul(Div(ang, 180 * Scale), Pi)

rad2deg(ang) == Mul(Div(ang, Pi), 180 * Scale)

lin_ind_2d(dim_1, ind_0, ind_1) == ind_0 * dim_1 + ind_1

\* a vector is a record [x, y, z]
Vec(x, y, z) == [x |-> x, y |-> y, z |-> z]

Dot(a, b) == Add(Add(Mul(a.x, b.x), Mul(a.y, b.y)), Mul(a.z, b.z))

vec_unit(v) ==
    LET mag == Hypot3(v.x, v.y, v.z)
    IN  Vec(Div(v.x, mag), Div(v.y, mag), Div(v.z, mag))

cross_prod(a, b) ==
    Vec(Sub(Mul(a.y, b.z), Mul(a.z, b.y)),
        Sub(Mul(a.z, b.x), Mul(a.x, b.z)),
        Sub(Mul(a.x, b.y), Mul(a.y, b.x)))

\* normal and area of the triangle (vert_0, vert_1, vert_2)
\* ... of the edge vectors' cross product n: unit normal n / |n|, area |n| / 2
NormalArea(n) ==
    LET mag == Hypot3(n.x, n.y, n.z)
    IN  [norm |-> Vec(Div(n.x, mag), Div(n.y, mag), Div(n.z, mag)),
         area |-> Div(mag, 2 * Scale)]

triangle_normal_area(vert_0, vert_1, vert_2) ==
    NormalArea(cross_prod(Vec(Sub(vert_2.x, vert_1.x), Sub(vert_2.y, vert_1.y),
                              Sub(vert_2.z, vert_1.z)),
                          Vec(Sub(vert_0.x, vert_1.x), Sub(vert_0.y, vert_1.y),
                              Sub(vert_0.z, vert_1.z))))

triangle_centroid(vert_0, vert_1, vert_2) ==
    Vec(Div(Add(Add(vert_0.x, vert_1.x), vert_2.x), 3 * Scale),
        Div(Add(Add(vert_0.y, vert_1.y), vert_2.y), 3 * Scale),
        Div(Add(Add(vert_0.z, vert_1.z), vert_2.z), 3 * Scale))

\* offsets of the three vertices of the lower left triangle of a pixel
triangle_vert_ll(dim_1, ind_0, ind_1) ==
    << (ind_0 * dim_1 + ind_1) * 3,
       (ind_0 * dim_1 + ind_1 + 1) * 3,
       ((ind_0 + 1) * dim_1 + ind_1) * 3 >>

\* offsets of the three vertices of the upper right triangle of a pixel
triangle_vert_ur(dim_1, ind_0, ind_1) ==
    << (ind_0 * dim_1 + ind_1 + 1) * 3,
       ((ind_0 + 1) * dim_1 + ind_1 + 1) * 3,
       ((ind_0 + 1) * dim_1 + ind_1) * 3 >>

\* the dispatch table {triangle_vert_ll, triangle_vert_ur}, keyed by n
func_ptr(n, dim_1, ind_0, ind_1) ==
    IF n = 0 THEN triangle_vert_ll(dim_1, ind_0, ind_1)
    ELSE triangle_vert_ur(dim_1, ind_0, ind_1)

K2degC(temp) == Sub(temp, 273150)

\* Rodrigues' rotation of v about the unit vector k by theta
Rodrigues(k, v, cos_theta, sin_theta) ==
    LET part == Mul(Dot(k, v), Sub(Scale, cos_theta))
    IN  Vec(Add(Add(Mul(v.x, cos_theta),
                    Mul(Sub(Mul(k.y, v.z), Mul(k.z, v.y)), sin_theta)),
                Mul(k.x, part)),
            Add(Add(Mul(v.y, cos_theta),
                    Mul(Sub(Mul(k.z, v.x), Mul(k.x, v.z)), sin_theta)),
                Mul(k.y, part)),
            Add(Add(Mul(v.z, cos_theta),
                    Mul(Sub(Mul(k.x, v.y), Mul(k.y, v.x)), sin_theta)),
                Mul(k.z, part)))

vec_rot(k, theta, v) == Rodrigues(k, v, Cos(theta), Sin(theta))

\* refraction correction [degree] for a true elevation angle [degree],
\* a temperature [degree Celsius] and a pressure [kPa]
atmos_refrac(elev_ang_true, temp, pressure) ==
    LET lower == 0 - Scale
        upper == 90 * Scale
        elev == StdMax(lower, StdMin(elev_ang_true, upper))
        r0 == Div(1020, Tan(deg2rad(Add(elev, Div(10300, Add(elev, 5110))))))
        r1 == Add(r0, 1)
        r2 == Mul(r1, Mul(Div(pressure, 101 * Scale),
                          Div(283 * Scale, Add(273 * Scale, temp))))
    IN  Mul(r2, Div(Scale, 60 * Scale))

\* (float) of a double: the narrower format keeps one digit in two
ToFloat(v) ==
    IF IsNaN(v) \/ IsInf(v) THEN v ELSE TDiv(v, 2) * 2

\* ------------------------------------------------------------------------
\* Caller memory: the DEM vertex buffers the facade aliases
\* ------------------------------------------------------------------------

\* The DEMs a caller hands to initialise.  A buffer is identified by the
\* scenario it belongs to (the facade keeps the pointer, not a copy).
\*   1: inner 5 x 3, pixel_per_gc 2, offset_gc 1, a bump and a slope
\*   2: inner 3 x 3, pixel_per_gc 1, offset_gc 1, one raised vertex
\*   3: inner 3 x 3, pixel_per_gc 2, offset_gc 0, outer and inner both flat
\*   4: inner 6 x 5, pixel_per_gc 4, offset_gc 0, one raised vertex: a single
\*      grid cell of four 2 x 2 pixel blocks, and a last row of pixels that
\*      belongs to no grid cell
Scenarios ==
    << [dem_dim_0 |-> 9, dem_dim_1 |-> 7, dem_dim_in_0 |-> 5, dem_dim_in_1 |-> 3,
        pixel_per_gc |-> 2, offset_gc |-> 1],
       [dem_dim_0 |-> 5, dem_dim_1 |-> 5, dem_dim_in_0 |-> 3, dem_dim_in_1 |-> 3,
        pixel_per_gc |-> 1, offset_gc |-> 1],
       [dem_dim_0 |-> 3, dem_dim_1 |-> 3, dem_dim_in_0 |-> 3, dem_dim_in_1 |-> 3,
        pixel_per_gc |-> 2, offset_gc |-> 0],
       [dem_dim_0 |-> 6, dem_dim_1 |-> 5, dem_dim_in_0 |-> 6, dem_dim_in_1 |-> 5,
        pixel_per_gc |-> 4, offset_gc |-> 0] >>

ScnIds == 1 .. Len(Scenarios)

\* elevation of outer vertex (r, c), in thousandths of a metre
Height(scn, r, c) ==
    CASE scn = 1 /\ r = 3 /\ c = 3 -> 600
      [] scn = 1 /\ r >= 5 /\ c >= 3 -> (c - 2) * 400
      [] scn = 2 /\ r = 2 /\ c = 2 -> 500
      [] scn = 4 /\ r = 1 /\ c = 3 -> 2000
      [] OTHER -> 0

\* the outer DEM: vertex (r, c) at offset (r * D1 + c) * 3, one metre apart
VertGrid(scn) ==
    LET d1 == Scenarios[scn].dem_dim_1
        len == Scenarios[scn].dem_dim_0 * d1 * 3
    IN  [ind \in 0 .. len - 1 |->
            LET v == ind \div 3
                r == v \div d1
                c == v % d1
            IN  CASE ind % 3 = 0 -> c * Scale
                  [] ind % 3 = 1 -> r * Scale
                  [] OTHER -> Height(scn, r, c)]

\* the inner DEM: the reference surface (elevation 0) under the core of the
\* outer DEM
VertGridIn(scn) ==
    LET d1 == Scenarios[scn].dem_dim_in_1
        len == Scenarios[scn].dem_dim_in_0 * d1 * 3
        sh == Scenarios[scn].pixel_per_gc * Scenarios[scn].offset_gc
    IN  [ind \in 0 .. len - 1 |->
            LET v == ind \div 3
                r == v \div d1
                c == v % d1
            IN  CASE ind % 3 = 0 -> (c + sh) * Scale
                  [] ind % 3 = 1 -> (r + sh) * Scale
                  [] OTHER -> 0]

Buffers == [scn \in ScnIds |-> [outer |-> VertGrid(scn), inner |-> VertGridIn(scn)]]

\* subsolar positions a caller passes (ENU, thousandths of a metre)
SunPositions ==
    << Vec(332, 332, 12100), Vec(15000, 3000, 100), Vec(0 - 6230, 1666, 4725),
       Vec(15000, 1666, 255) >>

SunIds == 1 .. Len(SunPositions)

\* ------------------------------------------------------------------------
\* Per-triangle computation (the body of the innermost loop)
\* ------------------------------------------------------------------------

ReadVert(buf, ind) == Vec(buf[ind], buf[ind + 1], buf[ind + 2])

\* the three vertices at the offsets ind of a vertex buffer
ReadTri(buf, ind) ==
    << ReadVert(buf, ind[1]), ReadVert(buf, ind[2]), ReadVert(buf, ind[3]) >>

\* centroid, normal and area of a triangle given by its vertices
TriProps(vert) ==
    [cent |-> triangle_centroid(vert[1], vert[2], vert[3]),
     na |-> triangle_normal_area(vert[1], vert[2], vert[3])]

\* the ray origin: the centroid lifted by ray_org_elev along the normal
RayOrigin(cent, norm, ray_org_elev) ==
    Vec(Add(cent.x, Mul(norm.x, ray_org_elev)),
        Add(cent.y, Mul(norm.y, ray_org_elev)),
        Add(cent.z, Mul(norm.z, ray_org_elev)))

\* what the loop body knows of a triangle before the sun vector is adjusted
GeomOf(tilt, hori, ray_org, sun_pos) ==
    [cent |-> tilt.cent, norm_tilt |-> tilt.na.norm, ray_org |-> ray_org,
     norm_hori |-> hori.na.norm, cent_base |-> hori.cent,
     surf_enl_fac |-> Div(tilt.na.area, hori.na.area),
     sun |-> vec_unit(Vec(Sub(sun_pos.x, ray_org.x),
                          Sub(sun_pos.y, ray_org.y),
                          Sub(sun_pos.z, ray_org.z)))]

GeomAt(c, tilt, hori, sun_pos) ==
    GeomOf(tilt, hori,
           RayOrigin(tilt.cent, tilt.na.norm, c.ray_org_elev_cl), sun_pos)

\* variant: a tilted triangle read at the inner pixel's own indices
TriGeomUnshifted(c, sun_pos, k, m, n) ==
    GeomAt(c,
           TriProps(ReadTri(Buffers[c.vert_grid_cl].outer,
                            func_ptr(n, c.dem_dim_1_cl, k, m))),
           TriProps(ReadTri(Buffers[c.vert_grid_in_cl].inner,
                            func_ptr(n, c.dem_dim_in_1_cl, k, m))),
           sun_pos)

\* Tilted triangle of pixel (k, m), sub-triangle n, taken from the outer DEM
\* at the shifted pixel; ray origin; horizontal triangle from the inner DEM;
\* surface enlargement factor; unit vector to the sun.
TriGeom(c, sun_pos, k, m, n) ==
    GeomAt(c,
           TriProps(ReadTri(Buffers[c.vert_grid_cl].outer,
                            func_ptr(n, c.dem_dim_1_cl,
                                     k + (c.pixel_per_gc_cl * c.offset_gc_cl),
                                     m + (c.pixel_per_gc_cl * c.offset_gc_cl)))),
           TriProps(ReadTri(Buffers[c.vert_grid_in_cl].inner,
                            func_ptr(n, c.dem_dim_in_1_cl, k, m))),
           sun_pos)

\* parameters of the reference atmosphere
temperature_ref == 283150

pressure_ref == 101000

lapse_rate == 6

exp_baro == Div(9810, Mul(287 * Scale, lapse_rate))

\* the apparent sun vector: the sun vector g.sun bent by atmospheric
\* refraction about the axis sun x norm_hori
Refract(g) ==
    LET dot_prod_hs == Dot(g.norm_hori, g.sun)
        dx == Sub(g.cent.x, g.cent_base.x)
        dy == Sub(g.cent.y, g.cent_base.y)
        dz == Sub(g.cent.z, g.cent_base.z)
        elevation == Hypot3(dx, dy, dz)
        elev_ang_true == Sub(90 * Scale, rad2deg(Acos(dot_prod_hs)))
        temperature == Sub(temperature_ref, Mul(lapse_rate, elevation))
        pressure == Mul(pressure_ref,
                        Pow(Div(temperature, temperature_ref), exp_baro))
        refrac_cor == atmos_refrac(elev_ang_true, K2degC(temperature), pressure)
        k == vec_unit(cross_prod(g.sun, g.norm_hori))
    IN  vec_rot(k, deg2rad(refrac_cor), g.sun)

\* variant: an Earth self-shadow test that lets the boundary d_hs =
\* dot_prod_min through
EarthShadowStrict(dot_prod_hs, c) == Lt(dot_prod_hs, c.dot_prod_min_cl)

\* self-shadowing test (Earth): the triangle is skipped
EarthShadow(dot_prod_hs, c) == Leq(dot_prod_hs, c.dot_prod_min_cl)

\* variant: a triangle self-shadow test that lets the boundary d_ts = 0
\* through
TiltShadowStrict(dot_prod_ts) == Lt(dot_prod_ts, 0)

\* self-shadowing test (triangle): the triangle is skipped
TiltShadow(dot_prod_ts) == Leq(dot_prod_ts, 0)

\* the clipped contribution of an unshadowed triangle, narrowed to float
Contribution(dot_prod_ts, dot_prod_hs, surf_enl_fac, c) ==
    ToFloat(StdMin(Mul(Div(dot_prod_ts, dot_prod_hs), surf_enl_fac),
                   c.sw_dir_cor_max_cl))

\* the members initialise caches from the DEM arguments it is given, for the
\* DEM pair scn of the caller
Layout(scn) ==
    LET s == Scenarios[scn]
    IN  [vert_grid_cl |-> scn, dem_dim_0_cl |-> s.dem_dim_0,
         dem_dim_1_cl |-> s.dem_dim_1, vert_grid_in_cl |-> scn,
         dem_dim_in_0_cl |-> s.dem_dim_in_0,
         dem_dim_in_1_cl |-> s.dem_dim_in_1,
         pixel_per_gc_cl |-> s.pixel_per_gc, offset_gc_cl |-> s.offset_gc,
         ray_org_elev_cl |-> 100]

\* variant: a search distance kept in kilometres
SettingsKilometres(dist_search, sw_dir_cor_max, ang_max) ==
    [sw_dir_cor_max_cl |-> sw_dir_cor_max, ang_max_cl |-> ang_max,
     dot_prod_min_cl |-> Cos(deg2rad(ang_max)),
     dist_search_cl |-> Mul(dist_search, Scale)]

\* the members initialise derives from its other arguments
Settings(dist_search, sw_dir_cor_max, ang_max) ==
    [sw_dir_cor_max_cl |-> sw_dir_cor_max, ang_max_cl |-> ang_max,
     dot_prod_min_cl |-> Cos(deg2rad(ang_max)),
     dist_search_cl |-> Mul(dist_search, 1000 * Scale)]

\* the ray of triangle tri with geometry g for the sun vector sun: issue is
\* FALSE when a self-shadow test skipped the triangle ("continue")
RayOf(c, g, sun, tri) ==
    LET dot_prod_hs == Dot(g.norm_hori, sun)
        dot_prod_ts == Dot(g.norm_tilt, sun)
        issue == ~EarthShadow(dot_prod_hs, c) /\ ~TiltShadow(dot_prod_ts)
    IN  [tri |-> tri, issue |-> issue, id |-> 0,
         dot_prod_hs |-> dot_prod_hs, dot_prod_ts |-> dot_prod_ts,
         surf_enl_fac |-> g.surf_enl_fac,
         norm_hori |-> g.norm_hori, norm_tilt |-> g.norm_tilt,
         sun_true |-> g.sun,
         org |-> Vec(ToFloat(g.ray_org.x), ToFloat(g.ray_org.y),
                     ToFloat(g.ray_org.z)),
         dir |-> Vec(ToFloat(sun.x), ToFloat(sun.y), ToFloat(sun.z)),
         tnear |-> 0, tfar |-> ToFloat(c.dist_search_cl),
         contrib |-> IF issue
                     THEN Contribution(dot_prod_ts, dot_prod_hs,
                                       g.surf_enl_fac, c)
                     ELSE 0]

\* variant: a sun vector that is refracted whatever refrac_cor says
SunVectorRefracted(g, refrac_cor) == Refract(g)

\* the sun vector the tests and the ray use
SunVector(g, refrac_cor) == IF refrac_cor = 1 THEN Refract(g) ELSE g.sun

SunRay(c, g, refrac_cor, tri) == RayOf(c, g, SunVector(g, refrac_cor), tri)

\* One triangle up to the point where its ray is handed to the scene
TriRay(c, sun_pos, refrac_cor, k, m, n) ==
    SunRay(c, TriGeom(c, sun_pos, k, m, n), refrac_cor, << k, m, n >>)

\* ------------------------------------------------------------------------
\* The occlusion scene (Embree)
\* ------------------------------------------------------------------------

\* What the committed scene answers is a function of the ray alone.  It is
\* not computed here: every correction is checked for each of these
\* answers.  A ray is named by the sun position and the triangle it leaves.
OccPatterns == {"none", "all", "alternate"}

Hit(occ, sun, tri) ==
    CASE occ = "none" -> FALSE
      [] occ = "all" -> TRUE
      [] OTHER -> (tri[1] + tri[2] + tri[3] + sun) % 2 = 0

\* variant: a scene query that leaves tfar untouched on a hit as well
OccludedNever(occ, sun, ray) == ray.tfar

\* rtcOccluded1 and each ray of rtcOccluded1M / rtcOccluded8: tfar of the
\* ray afterwards (-inf on a hit, untouched on a miss)
Occluded(occ, sun, ray) == IF Hit(occ, sun, ray.tri) THEN NInf ELSE ray.tfar

\* what the caller passes to initialise
MaskKinds == {"ones", "zeros", "mixed"}

MaskOf(kind, num_elem) ==
    [idx \in 0 .. num_elem - 1 |->
        CASE kind = "ones" -> 1
          [] kind = "zeros" -> 0
          [] OTHER -> IF idx = 0 THEN 2 ELSE 1]

ClipBounds == {1200, 5000}

AngMaxs == {60 * Scale, 90 * Scale}

\* search distance in kilometres
DistSearchs == {20}

\* TriRay is a function of the DEM pair, the settings, the sun position,
\* refrac_cor and the triangle: its values over what a caller can pass are
\* written out as tables, one per stage of the loop body.

\* stage 1, TriGeom: DEM pair, sun position, triangle
GeomKeys ==
    {key \in ScnIds \X SunIds \X (0 .. 3) \X (0 .. 3) \X {0, 1} :
        /\ key[3] < Scenarios[key[1]].dem_dim_in_0 - 1
        /\ key[4] < Scenarios[key[1]].dem_dim_in_1 - 1}

GeomTable ==
    [key \in GeomKeys |->
        TriGeom(Layout(key[1]), SunPositions[key[2]], key[3], key[4],
                key[5])] @@ << >>

\* stage 2, SunVector: the same and refrac_cor
SunTable ==
    [key \in GeomKeys \X {0, 1} |->
        SunVector(GeomTable[key[1]], key[2])] @@ << >>

\* stage 3, RayOf: the same and the settings
RayKeys ==
    {key \in ScnIds \X {Mul(d, 1000 * Scale) : d \in DistSearchs}
               \X ClipBounds \X AngMaxs \X SunIds \X {0, 1}
               \X (0 .. 3) \X (0 .. 3) \X {0, 1} :
        << key[1], key[5], key[7], key[8], key[9] >> \in GeomKeys}

RayTable ==
    [key \in RayKeys |->
        RayOf(Layout(key[1])
                @@ [Settings(0, key[3], key[4]) EXCEPT !.dist_search_cl = key[2]],
              GeomTable[<< key[1], key[5], key[7], key[8], key[9] >>],
              SunTable[<< << key[1], key[5], key[7], key[8], key[9] >>,
                          key[6] >>],
              << key[7], key[8], key[9] >>)] @@ << >>

Ray(c, sun, refrac_cor, k, m, n) ==
    RayTable[<< c.vert_grid_cl, c.dist_search_cl, c.sw_dir_cor_max_cl,
                c.ang_max_cl, sun, refrac_cor, k, m, n >>]

\* ------------------------------------------------------------------------
\* The three engines, one grid cell at a time
\* ------------------------------------------------------------------------

NumTriPerGc(c) == c.pixel_per_gc_cl * c.pixel_per_gc_cl * 2

\* the triangles (k, m, n) of grid cell (i, j) in the order of the loops
\* over k, m and n
TriSeq(c, i, j) ==
    LET p == c.pixel_per_gc_cl
    IN  [t \in 1 .. NumTriPerGc(c) |->
            << i * p + ((t - 1) \div (2 * p)),
               j * p + (((t - 1) \div 2) % p),
               (t - 1) % 2 >>]

\* the rays of the triangles tris, in their order
CellRays(c, sun, refrac_cor, tris) ==
    [t \in 1 .. Len(tris) |->
        Ray(c, sun, refrac_cor, tris[t][1], tris[t][2], tris[t][3])]

\* A cell's outcome: val the value left in the output cell, nrays the rays
\* handed to the scene, stores the stores made to the output cell, rays the
\* triangles a ray was issued for, added the pairs <<triangle, contribution>>
\* added to the accumulator, in order, ntri the triangles the loop body ran
\* for.
CellResult(val, nrays, stores, rays, added, ntri) ==
    [val |-> val, nrays |-> nrays, stores |-> stores, rays |-> rays,
     added |-> added, ntri |-> ntri]

\* variant: a cell accumulator written back for an occluded ray as well
SingleTracedAlways(acc, r, lit) ==
    CellResult(IF lit THEN ToFloat(Add(acc.val, r.contrib)) ELSE acc.val,
               acc.nrays + 1,
               acc.stores + 1,
               Append(acc.rays, r.tri),
               IF lit THEN Append(acc.added, << r.tri, r.contrib >>)
               ELSE acc.added,
               acc.ntri + 1)

\* sw_dir_cor: after rtcOccluded1 on ray r; lit is ray.tfar > 0.0
SingleTraced(acc, r, lit) ==
    CellResult(IF lit THEN ToFloat(Add(acc.val, r.contrib)) ELSE acc.val,
               acc.nrays + 1,
               IF lit THEN acc.stores + 1 ELSE acc.stores,
               Append(acc.rays, r.tri),
               IF lit THEN Append(acc.added, << r.tri, r.contrib >>)
               ELSE acc.added,
               acc.ntri + 1)

\* sw_dir_cor: accumulate into the output cell itself, one ray at a time;
\* acc.ntri counts the triangles the loop body has run for.  The loops over
\* m and n: the triangles of one row of pixels, up to triangle hi
RECURSIVE SingleLoop(_, _, _, _, _)
SingleLoop(occ, sun, rays, hi, acc) ==
    IF acc.ntri >= hi THEN acc
    ELSE IF ~rays[acc.ntri + 1].issue
         THEN SingleLoop(occ, sun, rays, hi, [acc EXCEPT !.ntri = @ + 1])
    ELSE SingleLoop(occ, sun, rays, hi,
                    SingleTraced(acc, rays[acc.ntri + 1],
                                 Gt(Occluded(occ, sun, rays[acc.ntri + 1]), 0)))

\* the loop over k: the rows of pixels of the cell, row triangles each
RECURSIVE SingleRows(_, _, _, _, _)
SingleRows(occ, sun, rays, row, acc) ==
    IF acc.ntri >= Len(rays) THEN acc
    ELSE SingleRows(occ, sun, rays, row,
                    SingleLoop(occ, sun, rays, acc.ntri + row, acc))

SingleCell(c, occ, sun, refrac_cor, i, j, cell) ==
    SingleRows(occ, sun, CellRays(c, sun, refrac_cor, TriSeq(c, i, j)),
               2 * c.pixel_per_gc_cl,
               CellResult(cell, 0, 0, << >>, << >>, 0))

\* sw_dir_cor_coherent: buffer the rays of the cell (rays[], with ids, and
\* sw_dir_cor_ray[]) ...
\* the loops over m and n: the triangles of one row of pixels, up to
\* triangle hi
RECURSIVE CoherentFill(_, _, _)
CoherentFill(cell_rays, hi, buf) ==
    IF buf.ntri >= hi THEN buf
    ELSE IF ~cell_rays[buf.ntri + 1].issue
         THEN CoherentFill(cell_rays, hi, [buf EXCEPT !.ntri = @ + 1])
    ELSE CoherentFill(cell_rays, hi,
           [rays |-> Append(buf.rays,
                            [cell_rays[buf.ntri + 1] EXCEPT
                               !.id = Len(buf.rays)]),
            sw_dir_cor_ray |-> Append(buf.sw_dir_cor_ray,
                                      cell_rays[buf.ntri + 1].contrib),
            ntri |-> buf.ntri + 1])

\* the loop over k: the rows of pixels of the cell, row triangles each
RECURSIVE CoherentRows(_, _, _)
CoherentRows(cell_rays, row, buf) ==
    IF buf.ntri >= Len(cell_rays) THEN buf
    ELSE CoherentRows(cell_rays, row,
                      CoherentFill(cell_rays, buf.ntri + row, buf))

\* ... hand them to rtcOccluded1M ...
Occluded1M(occ, sun, rays) ==
    [k \in 1 .. Len(rays) |->
        [rays[k] EXCEPT !.tfar = Occluded(occ, sun, rays[k])]]

\* variant: a sum that adds the contribution of every buffered ray
RECURSIVE CoherentSumAll(_, _, _)
CoherentSumAll(rays, sw_dir_cor_ray, acc) ==
    IF acc.k >= Len(rays) THEN acc
    ELSE CoherentSumAll(rays, sw_dir_cor_ray,
           [k |-> acc.k + 1,
            agg |-> ToFloat(Add(acc.agg,
                                sw_dir_cor_ray[rays[acc.k + 1].id + 1])),
            added |-> Append(acc.added,
                             << rays[acc.k + 1].tri,
                                sw_dir_cor_ray[rays[acc.k + 1].id + 1] >>)])

\* ... and sum the contributions of the rays left unoccluded: the loop
\* over k, kept in acc.k
RECURSIVE CoherentSum(_, _, _)
CoherentSum(rays, sw_dir_cor_ray, acc) ==
    IF acc.k >= Len(rays) THEN acc
    ELSE IF Gt(rays[acc.k + 1].tfar, 0)
         THEN CoherentSum(rays, sw_dir_cor_ray,
                [k |-> acc.k + 1,
                 agg |-> ToFloat(Add(acc.agg,
                                     sw_dir_cor_ray[rays[acc.k + 1].id + 1])),
                 added |-> Append(acc.added,
                                  << rays[acc.k + 1].tri,
                                     sw_dir_cor_ray[rays[acc.k + 1].id + 1] >>)])
         ELSE CoherentSum(rays, sw_dir_cor_ray, [acc EXCEPT !.k = @ + 1])

\* the single store of the cell: sw_dir_cor_agg / num_tri_per_gc
AggStore(c, agg, nrays, rays, added, ntri) ==
    CellResult(ToFloat(Div(agg, NumTriPerGc(c) * Scale)), nrays, 1, rays,
               added, ntri)

CoherentStore(c, buf, sum) ==
    AggStore(c, sum.agg, Len(buf.rays),
             [k \in 1 .. Len(buf.rays) |-> buf.rays[k].tri], sum.added,
             buf.ntri)

CoherentTrace(c, occ, sun, buf) ==
    CoherentStore(c, buf,
                  CoherentSum(Occluded1M(occ, sun, buf.rays),
                              buf.sw_dir_cor_ray,
                              [k |-> 0, agg |-> 0, added |-> << >>]))

CoherentCell(c, occ, sun, i, j) ==
    CoherentTrace(c, occ, sun,
                  CoherentRows(CellRays(c, sun, 0, TriSeq(c, i, j)),
                               2 * c.pixel_per_gc_cl,
                               [rays |-> << >>, sw_dir_cor_ray |-> << >>,
                                ntri |-> 0]))

\* sw_dir_cor_coherent_rp8: packets of 8 rays gathered from 2 x 2 pixel blocks

\* the blocks <<k, m>> of grid cell (i, j): both loops advance by 2
BlockSeq(c, i, j) ==
    [b \in 1 .. ((c.pixel_per_gc_cl + 1) \div 2) * ((c.pixel_per_gc_cl + 1) \div 2) |->
        << i * c.pixel_per_gc_cl
             + 2 * ((b - 1) \div ((c.pixel_per_gc_cl + 1) \div 2)),
           j * c.pixel_per_gc_cl
             + 2 * ((b - 1) % ((c.pixel_per_gc_cl + 1) \div 2)) >>]

\* variant: a block whose loop over k_block stays on the block's first row
BlockTrisOneRow(k, m) ==
    [t \in 1 .. 8 |-> << k, m + (((t - 1) \div 2) % 2), (t - 1) % 2 >>]

\* the triangles (k_block, m_block, n) of the block at <<k, m>>
BlockTris(k, m) ==
    [t \in 1 .. 8 |->
        << k + ((t - 1) \div 4), m + (((t - 1) \div 2) % 2), (t - 1) % 2 >>]

Lanes == 0 .. 7

\* ray8 and sw_dir_cor_ray before anything is written to them
StaleLane ==
    [tri |-> <<0 - 1, 0 - 1, 0 - 1>>, issue |-> FALSE, id |-> 0,
     dot_prod_hs |-> NaN, dot_prod_ts |-> NaN, surf_enl_fac |-> NaN,
     org |-> Vec(NaN, NaN, NaN), dir |-> Vec(NaN, NaN, NaN),
     tnear |-> NaN, tfar |-> NaN, contrib |-> NaN]

\* fill the lanes of one block
RECURSIVE Rp8Fill(_, _)
Rp8Fill(block_rays, pk) ==
    IF pk.ntri >= Len(block_rays) THEN pk
    ELSE IF ~block_rays[pk.ntri + 1].issue
         THEN Rp8Fill(block_rays, [pk EXCEPT !.ntri = @ + 1])
    ELSE Rp8Fill(block_rays,
           [ray8 |-> [pk.ray8 EXCEPT
                        ![pk.num_rays_gc] =
                            [block_rays[pk.ntri + 1] EXCEPT
                               !.id = pk.num_rays_gc]],
            valid8 |-> [pk.valid8 EXCEPT ![pk.num_rays_gc] = 0 - 1],
            sw_dir_cor_ray |-> [pk.sw_dir_cor_ray EXCEPT
                                  ![pk.num_rays_gc] =
                                      block_rays[pk.ntri + 1].contrib],
            num_rays_gc |-> pk.num_rays_gc + 1,
            ntri |-> pk.ntri + 1])

\* rtcOccluded8: only the lanes whose valid8 entry is -1 are traced
Occluded8(occ, sun, valid8, ray8) ==
    [n \in Lanes |->
        IF valid8[n] = 0 - 1
        THEN [ray8[n] EXCEPT !.tfar = Occluded(occ, sun, ray8[n])]
        ELSE ray8[n]]

\* variant: a sum over all eight lanes of the packet
RECURSIVE Rp8SumEveryLane(_, _, _, _)
Rp8SumEveryLane(ray8, sw_dir_cor_ray, num_rays_gc, acc) ==
    IF acc.n >= 8 THEN acc
    ELSE IF Gt(ray8[acc.n].tfar, 0)
         THEN Rp8SumEveryLane(ray8, sw_dir_cor_ray, num_rays_gc,
                [n |-> acc.n + 1,
                 agg |-> ToFloat(Add(acc.agg, sw_dir_cor_ray[acc.n])),
                 added |-> Append(acc.added,
                                  << ray8[acc.n].tri, sw_dir_cor_ray[acc.n] >>)])
         ELSE Rp8SumEveryLane(ray8, sw_dir_cor_ray, num_rays_gc,
                              [acc EXCEPT !.n = @ + 1])

\* add the contributions of lanes 0 .. num_rays_gc - 1 left unoccluded: the
\* loop over n, kept in acc.n
RECURSIVE Rp8Sum(_, _, _, _)
Rp8Sum(ray8, sw_dir_cor_ray, num_rays_gc, acc) ==
    IF acc.n >= num_rays_gc THEN acc
    ELSE IF Gt(ray8[acc.n].tfar, 0)
         THEN Rp8Sum(ray8, sw_dir_cor_ray, num_rays_gc,
                [n |-> acc.n + 1,
                 agg |-> ToFloat(Add(acc.agg, sw_dir_cor_ray[acc.n])),
                 added |-> Append(acc.added,
                                  << ray8[acc.n].tri, sw_dir_cor_ray[acc.n] >>)])
         ELSE Rp8Sum(ray8, sw_dir_cor_ray, num_rays_gc,
                     [acc EXCEPT !.n = @ + 1])

\* the cell's state after a block: ray8 and sw_dir_cor_ray live on; valid8
\* and num_rays_gc are those of the block just done
Rp8After(st, pk, traced, sum) ==
    [ray8 |-> traced, sw_dir_cor_ray |-> pk.sw_dir_cor_ray,
     valid8 |-> pk.valid8, num_rays_gc |-> pk.num_rays_gc,
     agg |-> sum.agg, added |-> sum.added,
     nrays |-> st.nrays + pk.num_rays_gc,
     rays |-> st.rays \o [n \in 1 .. pk.num_rays_gc |-> pk.ray8[n - 1].tri],
     ntri |-> st.ntri + pk.ntri]

Rp8Traced(st, pk, traced) ==
    Rp8After(st, pk, traced,
             Rp8Sum(traced, pk.sw_dir_cor_ray, pk.num_rays_gc,
                    [n |-> 0, agg |-> st.agg, added |-> st.added]))

\* one block: the packet pk filled for it is traced and summed
Rp8Block(occ, sun, st, pk) ==
    Rp8Traced(st, pk, Occluded8(occ, sun, pk.valid8, pk.ray8))

\* variant: a validity mask declared with the cell, not with the block
Rp8PacketKeepValid(st) ==
    [ray8 |-> st.ray8, valid8 |-> st.valid8,
     sw_dir_cor_ray |-> st.sw_dir_cor_ray, num_rays_gc |-> 0, ntri |-> 0]

\* the packet at the start of a block: valid8 and num_rays_gc start afresh,
\* ray8 and sw_dir_cor_ray are as the block before left them
Rp8Packet(st) ==
    [ray8 |-> st.ray8, valid8 |-> [n \in Lanes |-> 0],
     sw_dir_cor_ray |-> st.sw_dir_cor_ray, num_rays_gc |-> 0, ntri |-> 0]

\* the blocks of a cell in turn, eight triangles each
RECURSIVE Rp8Blocks(_, _, _, _, _)
Rp8Blocks(c, occ, sun, blocks, st) ==
    IF st.ntri >= 8 * Len(blocks) THEN st
    ELSE Rp8Blocks(c, occ, sun, blocks,
           Rp8Block(occ, sun, st,
             Rp8Fill(CellRays(c, sun, 0,
                              BlockTris(blocks[(st.ntri \div 8) + 1][1],
                                        blocks[(st.ntri \div 8) + 1][2])),
                     Rp8Packet(st))))

Rp8Store(c, st) ==
    AggStore(c, st.agg, st.nrays, st.rays, st.added, st.ntri)

\* the cell before its first block: ray8 and sw_dir_cor_ray hold nothing
\* yet
Rp8Start ==
    [ray8 |-> [n \in Lanes |-> StaleLane],
     sw_dir_cor_ray |-> [n \in Lanes |-> NaN],
     valid8 |-> [n \in Lanes |-> 0], num_rays_gc |-> 0,
     agg |-> 0, added |-> << >>, nrays |-> 0, rays |-> << >>, ntri |-> 0]

Rp8Cell(c, occ, sun, i, j) ==
    Rp8Store(c, Rp8Blocks(c, occ, sun, BlockSeq(c, i, j), Rp8Start))

\* the else branch of the mask test: the cell is assigned NAN
MaskedCell == CellResult(NaN, 0, 1, << >>, << >>, 0)

\* variant: a mask test that skips a cell only when its byte is 0
EngineCellMaskZero(c, occ, engine, sun, refrac_cor, i, j, cell) ==
    IF c.mask_cl[lin_ind_2d(c.num_gc_x_cl, i, j)] = 0 THEN MaskedCell
    ELSE CASE engine = "sw_dir_cor" ->
                SingleCell(c, occ, sun, refrac_cor, i, j, cell)
           [] engine = "sw_dir_cor_coherent" -> CoherentCell(c, occ, sun, i, j)
           [] OTHER -> Rp8Cell(c, occ, sun, i, j)

\* what an engine does with grid cell (i, j), whose output cell holds cell
EngineCell(c, occ, engine, sun, refrac_cor, i, j, cell) ==
    IF c.mask_cl[lin_ind_2d(c.num_gc_x_cl, i, j)] # 1 THEN MaskedCell
    ELSE CASE engine = "sw_dir_cor" ->
                SingleCell(c, occ, sun, refrac_cor, i, j, cell)
           [] engine = "sw_dir_cor_coherent" -> CoherentCell(c, occ, sun, i, j)
           [] OTHER -> Rp8Cell(c, occ, sun, i, j)

\* ------------------------------------------------------------------------
\* The facade CppTerrain, its caller and the parallel reduction
\* ------------------------------------------------------------------------

\* correction calls made on one facade
MaxCalls == 2

\* initialise calls made on one facade
MaxInits == 2

Engines == {"sw_dir_cor", "sw_dir_cor_coherent", "sw_dir_cor_coherent_rp8"}

\* geom_type strings a caller passes: the three documented ones, an empty
\* and a misspelt one
GeomTypes == {"triangle", "quad", "grid", "", "Triangle"}

\* variant: a choice of the geometry type that ignores the case of geom_type
RtcGeomTypeAnyCase(geom_type) ==
    CASE geom_type \in {"triangle", "Triangle"} -> "RTC_GEOMETRY_TYPE_TRIANGLE"
      [] geom_type = "quad" -> "RTC_GEOMETRY_TYPE_QUAD"
      [] OTHER -> "RTC_GEOMETRY_TYPE_GRID"

\* initializeScene: the geometry type handed to rtcNewGeometry (strcmp is
\* exact)
RtcGeomType(geom_type) ==
    CASE geom_type = "triangle" -> "RTC_GEOMETRY_TYPE_TRIANGLE"
      [] geom_type = "quad" -> "RTC_GEOMETRY_TYPE_QUAD"
      [] OTHER -> "RTC_GEOMETRY_TYPE_GRID"

\* initializeScene: the index buffer that is allocated and filled
IndexFormat(geom_type) ==
    CASE geom_type = "triangle" -> "RTC_FORMAT_UINT3"
      [] geom_type = "quad" -> "RTC_FORMAT_UINT4"
      [] OTHER -> "RTC_FORMAT_GRID"

\* variant: an upper right triangle cut along the other diagonal
TriangleIndicesOtherDiagonal(dem_dim_0, dem_dim_1) ==
    [n \in 0 .. ((dem_dim_0 - 1) * (dem_dim_1 - 1)) * 2 - 1 |->
        IF n % 2 = 0
        THEN [v0 |-> ((n \div 2) \div (dem_dim_1 - 1)) * dem_dim_1
                       + ((n \div 2) % (dem_dim_1 - 1)),
              v1 |-> ((n \div 2) \div (dem_dim_1 - 1)) * dem_dim_1
                       + ((n \div 2) % (dem_dim_1 - 1)) + 1,
              v2 |-> (((n \div 2) \div (dem_dim_1 - 1)) + 1) * dem_dim_1
                       + ((n \div 2) % (dem_dim_1 - 1))]
        ELSE [v0 |-> ((n \div 2) \div (dem_dim_1 - 1)) * dem_dim_1
                       + ((n \div 2) % (dem_dim_1 - 1)),
              v1 |-> (((n \div 2) \div (dem_dim_1 - 1)) + 1) * dem_dim_1
                       + ((n \div 2) % (dem_dim_1 - 1)) + 1,
              v2 |-> (((n \div 2) \div (dem_dim_1 - 1)) + 1) * dem_dim_1
                       + ((n \div 2) % (dem_dim_1 - 1))]]

\* initializeScene, "triangle": triangles[n] for n = 0 .. num_tri - 1 as the
\* loops over i and j leave them; pixel (i, j) fills entries 2 * (i * (dem_dim_1
\* - 1) + j) and the next
TriangleIndices(dem_dim_0, dem_dim_1) ==
    [n \in 0 .. ((dem_dim_0 - 1) * (dem_dim_1 - 1)) * 2 - 1 |->
        IF n % 2 = 0
        THEN [v0 |-> ((n \div 2) \div (dem_dim_1 - 1)) * dem_dim_1
                       + ((n \div 2) % (dem_dim_1 - 1)),
              v1 |-> ((n \div 2) \div (dem_dim_1 - 1)) * dem_dim_1
                       + ((n \div 2) % (dem_dim_1 - 1)) + 1,
              v2 |-> (((n \div 2) \div (dem_dim_1 - 1)) + 1) * dem_dim_1
                       + ((n \div 2) % (dem_dim_1 - 1))]
        ELSE [v0 |-> ((n \div 2) \div (dem_dim_1 - 1)) * dem_dim_1
                       + ((n \div 2) % (dem_dim_1 - 1)) + 1,
              v1 |-> (((n \div 2) \div (dem_dim_1 - 1)) + 1) * dem_dim_1
                       + ((n \div 2) % (dem_dim_1 - 1)) + 1,
              v2 |-> (((n \div 2) \div (dem_dim_1 - 1)) + 1) * dem_dim_1
                       + ((n \div 2) % (dem_dim_1 - 1))]]

\* variant: quads wound the other way round
QuadIndicesReversed(dem_dim_0, dem_dim_1) ==
    [n \in 0 .. ((dem_dim_0 - 1) * (dem_dim_1 - 1)) - 1 |->
        [v0 |-> (n \div (dem_dim_1 - 1)) * dem_dim_1 + (n % (dem_dim_1 - 1)),
         v1 |-> ((n \div (dem_dim_1 - 1)) + 1) * dem_dim_1
                  + (n % (dem_dim_1 - 1)),
         v2 |-> ((n \div (dem_dim_1 - 1)) + 1) * dem_dim_1
                  + (n % (dem_dim_1 - 1)) + 1,
         v3 |-> (n \div (dem_dim_1 - 1)) * dem_dim_1
                  + (n % (dem_dim_1 - 1)) + 1]]

\* initializeScene, "quad": quads[n] for n = 0 .. num_quad - 1; pixel (i, j)
\* fills entry i * (dem_dim_1 - 1) + j
QuadIndices(dem_dim_0, dem_dim_1) ==
    [n \in 0 .. ((dem_dim_0 - 1) * (dem_dim_1 - 1)) - 1 |->
        [v0 |-> (n \div (dem_dim_1 - 1)) * dem_dim_1 + (n % (dem_dim_1 - 1)),
         v1 |-> (n \div (dem_dim_1 - 1)) * dem_dim_1
                  + (n % (dem_dim_1 - 1)) + 1,
         v2 |-> ((n \div (dem_dim_1 - 1)) + 1) * dem_dim_1
                  + (n % (dem_dim_1 - 1)) + 1,
         v3 |-> ((n \div (dem_dim_1 - 1)) + 1) * dem_dim_1
                  + (n % (dem_dim_1 - 1))]]

\* initializeScene, otherwise: the one RTCGrid
GridDescriptor(dem_dim_0, dem_dim_1) ==
    [n \in {0} |->
        [startVertexID |-> 0, stride |-> dem_dim_1, width |-> dem_dim_1,
         height |-> dem_dim_0]]

\* initializeScene: the contents of the index buffer
IndexBuffer(dem_dim_0, dem_dim_1, geom_type) ==
    CASE geom_type = "triangle" -> TriangleIndices(dem_dim_0, dem_dim_1)
      [] geom_type = "quad" -> QuadIndices(dem_dim_0, dem_dim_1)
      [] OTHER -> GridDescriptor(dem_dim_0, dem_dim_1)

\* initializeScene: the scene object it returns, committed and holding one
\* reference; its vertex buffer is the caller's outer DEM of num_vert vertices
initializeScene(dem_dim_0, dem_dim_1, geom_type) ==
    [geom_type |-> geom_type, rtc_geom_type |-> RtcGeomType(geom_type),
     index_format |-> IndexFormat(geom_type),
     dem_dim_0 |-> dem_dim_0, dem_dim_1 |-> dem_dim_1,
     num_vert |-> dem_dim_0 * dem_dim_1,
     index |-> IndexBuffer(dem_dim_0, dem_dim_1, geom_type),
     committed |-> TRUE, refs |-> 1]

\* what the member scene may hold when it was never assigned
Indeterminate == {0, 0 - 1}

\* what a freshly allocated output array may hold in every cell
Fills == {0, Scale, NaN}

VARIABLES
    terrain,    \* the members of the CppTerrain object
    out,        \* the output array of the current or latest correction call
    out0,       \* its contents when that call began
    call,       \* the arguments of that call
    phase,      \* "idle", or "par" while the parallel reduction runs
    tasks,      \* the sub-ranges of rows the reduction is working on
    num_rays,   \* the ray count the latest call reported
    log,        \* per output cell: what the call in progress did to it
    ncalls,     \* correction calls made so far
    mem,        \* caller memory the facade aliases: DEMs, mask, sun position
    embree      \* the Embree objects: device, scenes, the member scene

vars ==
    << terrain, out, out0, call, phase, tasks, num_rays, log, ncalls, mem,
       embree >>

NumElem(c) == c.num_gc_y_cl * c.num_gc_x_cl

Cells(c) == 0 .. NumElem(c) - 1

\* the writer tag of the thread that called the engine
MainThread == << 0 - 1, 0 - 1 >>

NoLog(c) ==
    [idx \in Cells(c) |->
        [stores |-> 0, by |-> << >>, rays |-> << >>, added |-> << >>,
         ntri |-> 0]]

\* CppTerrain::CppTerrain: the device exists, nothing else is set
Init ==
    /\ terrain = [vert_grid_cl |-> 0, dem_dim_0_cl |-> 0, dem_dim_1_cl |-> 0,
                  vert_grid_in_cl |-> 0, dem_dim_in_0_cl |-> 0,
                  dem_dim_in_1_cl |-> 0, pixel_per_gc_cl |-> 0,
                  offset_gc_cl |-> 0, mask_cl |-> << >>,
                  sw_dir_cor_max_cl |-> 0, ang_max_cl |-> 0,
                  ray_org_elev_cl |-> 0, num_gc_y_cl |-> 0, num_gc_x_cl |-> 0,
                  num_tri_cl |-> 0, dot_prod_min_cl |-> 0,
                  dist_search_cl |-> 0, scene |-> "unset"]
    /\ out = << >>
    /\ out0 = << >>
    /\ call = [engine |-> "none", sun |-> 0, refrac_cor |-> 0,
               rejected |-> FALSE, repeat |-> FALSE]
    /\ phase = "idle"
    /\ tasks = << >>
    /\ num_rays = 0
    /\ log = << >>
    /\ ncalls = 0
    /\ mem = [vert_grid |-> << >>, vert_grid_in |-> << >>, mask |-> << >>,
              sun_pos |-> Vec(0, 0, 0)]
    /\ embree = [device |-> "live", scenes |-> << >>, scene |-> 0,
                 released |-> << >>, torn |-> FALSE]

\* CppTerrain::initialise on the DEM pair scn; occ is how the scene that
\* initializeScene commits will answer occlusion queries
initialise(scn, mask, dist_search, sw_dir_cor_max, ang_max, occ, geom_type) ==
    LET s == Scenarios[scn]
        num_gc_y == (s.dem_dim_in_0 - 1) \div s.pixel_per_gc
        num_gc_x == (s.dem_dim_in_1 - 1) \div s.pixel_per_gc
    IN  /\ phase = "idle"
        /\ ~embree.torn
        /\ Len(embree.scenes) < MaxInits
        /\ mem' = [mem EXCEPT !.vert_grid = Buffers[scn].outer,
                              !.vert_grid_in = Buffers[scn].inner,
                              !.mask = MaskOf(mask, num_gc_y * num_gc_x)]
        /\ embree' = [embree EXCEPT
                        !.scenes = Append(@, initializeScene(s.dem_dim_0,
                                                             s.dem_dim_1,
                                                             geom_type)),
                        !.scene = Len(embree.scenes) + 1]
        /\ terrain' =
             Layout(scn) @@ Settings(dist_search, sw_dir_cor_max, ang_max)
               @@ [mask_cl |-> MaskOf(mask, num_gc_y * num_gc_x),
                   num_gc_y_cl |-> num_gc_y, num_gc_x_cl |-> num_gc_x,
                   num_tri_cl |-> (s.dem_dim_in_0 - 1) * (s.dem_dim_in_1 - 1) * 2,
                   scene |-> occ]
        /\ UNCHANGED << out, out0, call, phase, tasks, num_rays, log, ncalls >>

\* the output arrays a caller may pass: a fresh one to its first call, the
\* one it passed to the previous call afterwards
FreshArray(c, fill) == [idx \in Cells(c) |-> fill]

Arrays(c) ==
    IF ncalls = 0 THEN {FreshArray(c, fill) : fill \in Fills} ELSE {out}

\* after its first call the caller makes the same call again
Again(engine, sun, refrac_cor) ==
    ncalls > 0 =>
        call.engine = engine /\ call.sun = sun /\ call.refrac_cor = refrac_cor

\* tbb::blocked_range<size_t>(lo, hi), and the body's progress through it
Task(lo, hi) == [lo |-> lo, hi |-> hi, i |-> lo, j |-> 0, num_rays |-> 0]

\* entry into an engine up to the start of tbb::parallel_reduce
Begin(engine, sun, arr, refrac_cor) ==
    /\ phase = "idle"
    /\ ~embree.torn
    /\ terrain.scene # "unset"
    /\ ncalls < MaxCalls
    /\ Again(engine, sun, refrac_cor)
    /\ mem' = [mem EXCEPT !.sun_pos = SunPositions[sun]]
    /\ call' = [engine |-> engine, sun |-> sun, refrac_cor |-> refrac_cor,
                rejected |-> FALSE,
                repeat |-> ncalls > 0]
    /\ out' = arr
    /\ out0' = arr
    /\ phase' = "par"
    /\ tasks' = << Task(0, terrain.num_gc_y_cl) >>
    /\ log' = NoLog(terrain)
    /\ ncalls' = ncalls + 1
    /\ UNCHANGED << terrain, num_rays, embree >>

sw_dir_cor(sun, arr, refrac_cor) == Begin("sw_dir_cor", sun, arr, refrac_cor)

sw_dir_cor_coherent(sun, arr) == Begin("sw_dir_cor_coherent", sun, arr, 0)

\* variant: the packet engine without its test of pixel_per_gc
Rp8Unchecked(sun, arr) == Begin("sw_dir_cor_coherent_rp8", sun, arr, 0)

\* the packet engine refuses an odd pixel_per_gc before doing anything
sw_dir_cor_coherent_rp8(sun, arr) ==
    IF terrain.pixel_per_gc_cl % 2 # 0
    THEN /\ phase = "idle"
         /\ ~embree.torn
         /\ terrain.scene # "unset"
         /\ ncalls < MaxCalls
         /\ mem' = [mem EXCEPT !.sun_pos = SunPositions[sun]]
         /\ Again("sw_dir_cor_coherent_rp8", sun, 0)
         /\ call' = [engine |-> "sw_dir_cor_coherent_rp8", sun |-> sun,
                     refrac_cor |-> 0, rejected |-> TRUE,
                     repeat |-> ncalls > 0]
         /\ out' = arr
         /\ out0' = arr
         /\ log' = NoLog(terrain)
         /\ ncalls' = ncalls + 1
         /\ UNCHANGED << terrain, phase, tasks, num_rays, embree >>
    ELSE Begin("sw_dir_cor_coherent_rp8", sun, arr, 0)

\* blocked_range's splitting constructor: the range is cut at its middle
Middle(lo, hi) == lo + ((hi - lo) \div 2)

\* variant: a split that leaves the first half the whole range
SplitOverlap(t) ==
    /\ phase = "par"
    /\ t \in DOMAIN tasks
    /\ tasks[t].i = tasks[t].lo /\ tasks[t].j = 0
    /\ tasks[t].hi - tasks[t].lo > 1
    /\ tasks' = Append(tasks,
                       Task(Middle(tasks[t].lo, tasks[t].hi), tasks[t].hi))
    /\ UNCHANGED << terrain, out, out0, call, phase, num_rays, log, ncalls,
                    mem, embree >>

\* the partitioner may split any range of more than one row (grain size 1)
\* that no body has started on
Split(t) ==
    /\ phase = "par"
    /\ t \in DOMAIN tasks
    /\ tasks[t].i = tasks[t].lo /\ tasks[t].j = 0
    /\ tasks[t].hi - tasks[t].lo > 1
    /\ tasks' = Append([tasks EXCEPT ![t] = Task(tasks[t].lo,
                                                  Middle(tasks[t].lo, tasks[t].hi))],
                       Task(Middle(tasks[t].lo, tasks[t].hi), tasks[t].hi))
    /\ UNCHANGED << terrain, out, out0, call, phase, num_rays, log, ncalls,
                    mem, embree >>

\* variant: a body that normalises the sun position in the caller's array
CellDoneNormalise(t, lin_ind_gc, r, last) ==
    /\ out' = [out EXCEPT ![lin_ind_gc] = r.val]
    /\ log' = [log EXCEPT ![lin_ind_gc] =
                 [stores |-> @.stores + r.stores,
                  by |-> Append(@.by, << tasks[t].lo, tasks[t].hi >>),
                  rays |-> @.rays \o r.rays,
                  added |-> @.added \o r.added,
                  ntri |-> @.ntri + r.ntri]]
    /\ tasks' = [tasks EXCEPT ![t] =
                   [@ EXCEPT !.i = IF last THEN @ + 1 ELSE @,
                             !.j = IF last THEN 0 ELSE @ + 1,
                             !.num_rays = @ + r.nrays]]
    /\ mem' = [mem EXCEPT !.sun_pos = vec_unit(@)]

\* task t has done grid cell lin_ind_gc with outcome r and moves on
CellDone(t, lin_ind_gc, r, last) ==
    /\ out' = [out EXCEPT ![lin_ind_gc] = r.val]
    /\ log' = [log EXCEPT ![lin_ind_gc] =
                 [stores |-> @.stores + r.stores,
                  by |-> Append(@.by, << tasks[t].lo, tasks[t].hi >>),
                  rays |-> @.rays \o r.rays,
                  added |-> @.added \o r.added,
                  ntri |-> @.ntri + r.ntri]]
    /\ tasks' = [tasks EXCEPT ![t] =
                   [@ EXCEPT !.i = IF last THEN @ + 1 ELSE @,
                             !.j = IF last THEN 0 ELSE @ + 1,
                             !.num_rays = @ + r.nrays]]
    /\ mem' = mem

\* the body of the reduction on the sub-range of task t: one grid cell (i, j)
\* of the loops over i and j
TaskStep(t) ==
    /\ phase = "par"
    /\ t \in DOMAIN tasks
    /\ tasks[t].i < tasks[t].hi
    /\ CellDone(t, lin_ind_2d(terrain.num_gc_x_cl, tasks[t].i, tasks[t].j),
                EngineCell(terrain, terrain.scene, call.engine, call.sun,
                           call.refrac_cor, tasks[t].i, tasks[t].j,
                           out[lin_ind_2d(terrain.num_gc_x_cl,
                                          tasks[t].i, tasks[t].j)]),
                tasks[t].j + 1 >= terrain.num_gc_x_cl)
    /\ UNCHANGED << terrain, out0, call, phase, num_rays, ncalls, embree >>

\* variant: a reduction that returns only when a body has run past the end
\* of its sub-range
JoinedPastEnd(ts) == \A t \in DOMAIN ts : ts[t].i > ts[t].hi

\* parallel_reduce returns when the body has run over every sub-range
Joined(ts) == \A t \in DOMAIN ts : ts[t].i = ts[t].hi

\* variant: a reduction that returns the count of the last sub-range only
JoinRaysLast(ts, t) ==
    IF ts = << >> THEN 0 ELSE ts[Len(ts)].num_rays

\* the reduction std::plus over the partial ray counts
RECURSIVE JoinRays(_, _)
JoinRays(ts, t) ==
    IF t > Len(ts) THEN 0 ELSE ts[t].num_rays + JoinRays(ts, t + 1)

\* sw_dir_cor's loop after the reduction: every cell over num_tri_per_gc
DivideAll(c, arr) ==
    [idx \in Cells(c) |-> ToFloat(Div(arr[idx], NumTriPerGc(c) * Scale))]

\* the rest of the engine after tbb::parallel_reduce
Finish ==
    /\ phase = "par"
    /\ Joined(tasks)
    /\ num_rays' = JoinRays(tasks, 1)
    /\ IF call.engine = "sw_dir_cor"
       THEN /\ out' = DivideAll(terrain, out)
            /\ log' = [idx \in Cells(terrain) |->
                         [log[idx] EXCEPT !.stores = @ + 1,
                                          !.by = Append(@, MainThread)]]
       ELSE UNCHANGED << out, log >>
    /\ phase' = "idle"
    /\ tasks' = << >>
    /\ UNCHANGED << terrain, out0, call, ncalls, mem, embree >>

\* CppTerrain::~CppTerrain: the member scene, whatever it holds, and the
\* device are released
ReleaseScene(h) ==
    /\ embree' = [embree EXCEPT
                    !.scenes = [k \in DOMAIN @ |->
                                  IF k = h THEN [@[k] EXCEPT !.refs = @ - 1]
                                  ELSE @[k]],
                    !.released = Append(@, h),
                    !.device = "released",
                    !.torn = TRUE]
    /\ UNCHANGED << terrain, out, out0, call, phase, tasks, num_rays, log,
                    ncalls, mem >>

Teardown ==
    /\ phase = "idle"
    /\ ~embree.torn
    /\ IF embree.scenes = << >>
       THEN \E h \in Indeterminate : ReleaseScene(h)
       ELSE ReleaseScene(embree.scene)

\* A caller that initialises the facade once and then makes correction calls
Next ==
    \/ \E scn \in ScnIds, mask \in MaskKinds, dist_search \in DistSearchs,
          sw_dir_cor_max \in ClipBounds, ang_max \in AngMaxs,
          occ \in OccPatterns :
            /\ terrain.scene = "unset"
            /\ initialise(scn, mask, dist_search, sw_dir_cor_max, ang_max, occ,
                          "grid")
    \/ \E sun \in SunIds, arr \in Arrays(terrain), refrac_cor \in {0, 1} :
            sw_dir_cor(sun, arr, refrac_cor)
    \/ \E sun \in SunIds, arr \in Arrays(terrain) :
            sw_dir_cor_coherent(sun, arr)
    \/ \E sun \in SunIds, arr \in Arrays(terrain) :
            sw_dir_cor_coherent_rp8(sun, arr)
    \/ \E t \in DOMAIN tasks : Split(t)
    \/ \E t \in DOMAIN tasks : TaskStep(t)
    \/ Finish

Spec == Init /\ [][Next]_vars

\* A caller that initialises the facade on any DEM pair, mask and scene and
\* makes one correction call on a zeroed array, when the scheduler runs every
\* body it has a sub-range for and the calling thread goes on once the
\* reduction has returned: each run of the body, occlusion queries included,
\* is one step that returns.
NextFair ==
    \/ \E scn \in ScnIds, mask \in MaskKinds, occ \in OccPatterns :
            /\ terrain.scene = "unset"
            /\ initialise(scn, mask, 20, 1200, 90 * Scale, occ, "grid")
    \/ \E sun \in SunIds, refrac_cor \in {0, 1} :
            ncalls = 0 /\ sw_dir_cor(sun, FreshArray(terrain, 0), refrac_cor)
    \/ \E sun \in SunIds :
            ncalls = 0 /\ sw_dir_cor_coherent(sun, FreshArray(terrain, 0))
    \/ \E sun \in SunIds :
            ncalls = 0 /\ sw_dir_cor_coherent_rp8(sun, FreshArray(terrain, 0))
    \/ \E t \in DOMAIN tasks : Split(t)
    \/ \E t \in DOMAIN tasks : TaskStep(t)
    \/ Finish

\* some body of the reduction moves on by one cell, having issued n rays in
\* it: the steps of TaskStep as far as tasks shows them
BodyRuns ==
    /\ phase = "par"
    /\ \E t \in DOMAIN tasks, n \in 0 .. NumTriPerGc(terrain) :
           /\ tasks[t].i < tasks[t].hi
           /\ tasks' = [tasks EXCEPT ![t] =
                          [@ EXCEPT
                             !.i = IF tasks[t].j + 1 >= terrain.num_gc_x_cl
                                   THEN @ + 1 ELSE @,
                             !.j = IF tasks[t].j + 1 >= terrain.num_gc_x_cl
                                   THEN 0 ELSE @ + 1,
                             !.num_rays = @ + n]]

SpecFair ==
    /\ Init
    /\ [][NextFair]_vars
    /\ WF_tasks(BodyRuns)
    /\ WF_vars(Finish)

\* A caller that follows the facade through its life: it may initialise it
\* again at any time between calls, on the same DEM pair with any geom_type,
\* and destroys it in the end.  The mask and the sun position are one each.
NextLife ==
    \/ \E scn \in ScnIds, geom_type \in GeomTypes :
            /\ terrain.scene # "unset" => scn = terrain.vert_grid_cl
            /\ initialise(scn, "ones", 20, 1200, 90 * Scale, "none", geom_type)
    \/ \E arr \in Arrays(terrain), refrac_cor \in {0, 1} :
            sw_dir_cor(3, arr, refrac_cor)
    \/ \E arr \in Arrays(terrain) : sw_dir_cor_coherent(3, arr)
    \/ \E arr \in Arrays(terrain) : sw_dir_cor_coherent_rp8(3, arr)
    \/ \E t \in DOMAIN tasks : Split(t)
    \/ \E t \in DOMAIN tasks : TaskStep(t)
    \/ Finish
    \/ Teardown

SpecLife == Init /\ [][NextLife]_vars

\* ------------------------------------------------------------------------
\* Properties
\* ------------------------------------------------------------------------

\* a correction call has returned (for the packet engine: it was not refused)
Returned == phase = "idle" /\ call.engine # "none"

Done == Returned /\ ~call.rejected

Unmasked(idx) == terrain.mask_cl[idx] = 1

\* row and column of the grid cell with linear index idx
RowOf(idx) == idx \div terrain.num_gc_x_cl

ColOf(idx) == idx % terrain.num_gc_x_cl

\* the contributions added to a cell, summed in float in the order added
RECURSIVE SumAdded(_, _)
SumAdded(added, k) ==
    IF k = 0 THEN 0 ELSE ToFloat(Add(SumAdded(added, k - 1), added[k][2]))

\* the triangles named in a sequence of triangles or of pairs << triangle, _ >>
TrisOf(rays) == {rays[k] : k \in DOMAIN rays}

AddedTris(added) == {added[k][1] : k \in DOMAIN added}

\* an engine run by one thread from entry to return on the output array arr
RunCells(c, occ, engine, sun, refrac_cor, arr) ==
    [idx \in Cells(c) |->
        EngineCell(c, occ, engine, sun, refrac_cor,
                   idx \div c.num_gc_x_cl, idx % c.num_gc_x_cl, arr[idx])]

Vals(c, cells) == [idx \in Cells(c) |-> cells[idx].val]

RunEngine(c, occ, engine, sun, refrac_cor, arr) ==
    IF engine = "sw_dir_cor"
    THEN DivideAll(c, Vals(c, RunCells(c, occ, engine, sun, refrac_cor, arr)))
    ELSE Vals(c, RunCells(c, occ, engine, sun, refrac_cor, arr))

\* C1: after a correction call has returned, whatever the output array held
\* before, a cell is NaN exactly when its mask byte is not 1, and an unmasked
\* cell lies in [0, sw_dir_cor_max].
C1_OutputRange ==
    Done =>
        \A idx \in Cells(terrain) :
            /\ IsNaN(out[idx]) <=> ~Unmasked(idx)
            /\ Unmasked(idx) =>
                   Leq(0, out[idx]) /\ Leq(out[idx], terrain.sw_dir_cor_max_cl)

\* C2: in each engine the final value of an unmasked cell is the sum of the
\* contributions added for its triangles divided by pixel_per_gc^2 * 2.
C2_FixedCountMean ==
    Done =>
        \A idx \in Cells(terrain) :
            Unmasked(idx) =>
                out[idx] = ToFloat(Div(SumAdded(log[idx].added,
                                                Len(log[idx].added)),
                                       NumTriPerGc(terrain) * Scale))

\* C3: with an even pixel_per_gc and refrac_cor = 0 the array a call leaves
\* is the array each of the three engines leaves for the same configuration,
\* mask, sun position and initial contents of the output array.
C3_EnginesAgree ==
    (Done /\ terrain.pixel_per_gc_cl % 2 = 0 /\ call.refrac_cor = 0) =>
        \A engine \in Engines :
            out = RunEngine(terrain, terrain.scene, engine, call.sun, 0, out0)

\* C4: a call made a second time in a row with the same sun position on the
\* same output array leaves the array as the first call left it.
C4_RepeatLeavesArray == (Returned /\ call.repeat) => out = out0

\* C5: a cell whose mask byte is not 1 has none of its triangles processed
\* and no ray issued, and holds NaN once its task has passed it; with an
\* all-zero mask the returned array is all NaN and the ray count is 0.
C5_MaskedCells ==
    /\ \A idx \in DOMAIN log :
           ~Unmasked(idx) =>
               /\ log[idx].ntri = 0
               /\ log[idx].rays = << >>
               /\ log[idx].added = << >>
               /\ (log[idx].by # << >> /\ ~call.rejected) => IsNaN(out[idx])
    /\ (Done /\ \A idx \in Cells(terrain) : terrain.mask_cl[idx] = 0) =>
           /\ \A idx \in Cells(terrain) : IsNaN(out[idx])
           /\ num_rays = 0

C5_Witness ==
    /\ Done
    /\ \E idx \in Cells(terrain) :
           terrain.mask_cl[idx] = 2 /\ IsNaN(out[idx]) /\ log[idx].by # << >>
    /\ \E idx \in Cells(terrain) : Unmasked(idx) /\ log[idx].rays # << >>

\* C6: a step that enters sw_dir_cor_coherent_rp8 with an odd pixel_per_gc
\* reports the error and returns: no output cell is written, no ray is
\* issued, no reduction is started and no member of the facade changes.
C6_OddRefused ==
    [][(/\ ncalls' = ncalls + 1
        /\ call'.engine = "sw_dir_cor_coherent_rp8"
        /\ terrain.pixel_per_gc_cl % 2 # 0)
          => /\ call'.rejected
             /\ terrain' = terrain
             /\ num_rays' = num_rays
             /\ phase' = "idle"
             /\ tasks' = << >>
             /\ out' = out0'
             /\ \A idx \in DOMAIN log' :
                    /\ log'[idx].stores = 0
                    /\ log'[idx].rays = << >>
                    /\ log'[idx].ntri = 0]_vars

C6_Witness ==
    /\ Returned
    /\ call.rejected
    /\ \E idx \in Cells(terrain) : ~Unmasked(idx) /\ out[idx] = Scale

C8_DisjointRows ==
    /\ \A t, u \in DOMAIN tasks :
           t # u => tasks[t].hi <= tasks[u].lo \/ tasks[u].hi <= tasks[t].lo
    /\ \A idx \in DOMAIN log :
           /\ \A k \in DOMAIN log[idx].by :
                  \/ /\ log[idx].by[k] = MainThread
                     /\ k = 2
                     /\ phase = "idle"
                  \/ /\ log[idx].by[k] # MainThread
                     /\ k = 1
                     /\ log[idx].by[k][1] <= RowOf(idx)
                     /\ RowOf(idx) < log[idx].by[k][2]

C8_Witness ==
    /\ phase = "par"
    /\ Len(tasks) = 2
    /\ \A t \in DOMAIN tasks : tasks[t].j = 1
    /\ call.engine = "sw_dir_cor"

\* C9: every contribution added to a cell accumulator lies in
\* [0, sw_dir_cor_max].
C9_ContributionRange ==
    \A idx \in DOMAIN log :
        \A k \in DOMAIN log[idx].added :
            /\ Leq(0, log[idx].added[k][2])
            /\ Leq(log[idx].added[k][2], terrain.sw_dir_cor_max_cl)

\* C10: a triangle of a cell the engine has done whose d_hs is at most
\* dot_prod_min, equality included, had no ray issued and added nothing.
C10_EarthShadow ==
    \A idx \in DOMAIN log :
        (log[idx].by # << >> /\ Unmasked(idx)) =>
            \A t \in 1 .. NumTriPerGc(terrain) :
                Leq(Ray(terrain, call.sun, call.refrac_cor,
                        TriSeq(terrain, RowOf(idx), ColOf(idx))[t][1],
                        TriSeq(terrain, RowOf(idx), ColOf(idx))[t][2],
                        TriSeq(terrain, RowOf(idx), ColOf(idx))[t][3]).dot_prod_hs,
                    terrain.dot_prod_min_cl)
                  => /\ TriSeq(terrain, RowOf(idx), ColOf(idx))[t]
                            \notin TrisOf(log[idx].rays)
                     /\ TriSeq(terrain, RowOf(idx), ColOf(idx))[t]
                            \notin AddedTris(log[idx].added)

C10_Witness ==
    /\ Done
    /\ \E idx \in Cells(terrain) :
           /\ Unmasked(idx)
           /\ \E t \in 1 .. NumTriPerGc(terrain) :
                  /\ Ray(terrain, call.sun, call.refrac_cor,
                         TriSeq(terrain, RowOf(idx), ColOf(idx))[t][1],
                         TriSeq(terrain, RowOf(idx), ColOf(idx))[t][2],
                         TriSeq(terrain, RowOf(idx), ColOf(idx))[t][3]).dot_prod_hs
                       = terrain.dot_prod_min_cl
                  /\ Gt(Ray(terrain, call.sun, call.refrac_cor,
                            TriSeq(terrain, RowOf(idx), ColOf(idx))[t][1],
                            TriSeq(terrain, RowOf(idx), ColOf(idx))[t][2],
                            TriSeq(terrain, RowOf(idx), ColOf(idx))[t][3]).dot_prod_ts,
                        0)
                  /\ TriSeq(terrain, RowOf(idx), ColOf(idx))[t]
                         \notin TrisOf(log[idx].rays)

\* the ray record of the t-th triangle of grid cell idx in the call's loops
TriOf(idx, t) == TriSeq(terrain, RowOf(idx), ColOf(idx))[t]

RayAt(idx, t, refrac_cor) ==
    Ray(terrain, call.sun, refrac_cor,
        TriOf(idx, t)[1], TriOf(idx, t)[2], TriOf(idx, t)[3])

CallRay(idx, t) == RayAt(idx, t, call.refrac_cor)

\* grid cell idx is unmasked and the engine has been through it
Processed(idx) == log[idx].by # << >> /\ Unmasked(idx)

TriIds == 1 .. NumTriPerGc(terrain)

\* C11: a triangle of a cell the engine has done that passed the Earth test
\* but has d_ts <= 0, equality included, had no ray issued and added nothing.
C11_TiltShadow ==
    \A idx \in DOMAIN log :
        Processed(idx) =>
            \A t \in TriIds :
                (/\ Gt(CallRay(idx, t).dot_prod_hs, terrain.dot_prod_min_cl)
                 /\ Leq(CallRay(idx, t).dot_prod_ts, 0))
                  => /\ TriOf(idx, t) \notin TrisOf(log[idx].rays)
                     /\ TriOf(idx, t) \notin AddedTris(log[idx].added)

C11_Witness ==
    /\ Done
    /\ \E idx \in Cells(terrain) :
           /\ Unmasked(idx)
           /\ \E t \in TriIds :
                  /\ Gt(CallRay(idx, t).dot_prod_hs, terrain.dot_prod_min_cl)
                  /\ CallRay(idx, t).dot_prod_ts = 0
                  /\ TriOf(idx, t) \notin TrisOf(log[idx].rays)

\* the ray record the call computed for triangle tri
RayFor(tri) == Ray(terrain, call.sun, call.refrac_cor, tri[1], tri[2], tri[3])

\* min((d_ts / d_hs) * f, sw_dir_cor_max) as a float
Clipped(ray) ==
    ToFloat(StdMin(Mul(Div(ray.dot_prod_ts, ray.dot_prod_hs), ray.surf_enl_fac),
                   terrain.sw_dir_cor_max_cl))

RECURSIVE SumRays(_)
SumRays(idx) ==
    IF idx < 0 THEN 0 ELSE Len(log[idx].rays) + SumRays(idx - 1)

\* C12: every ray issued has tnear = 0 and tfar = the search distance in
\* metres, 1000 times the kilometres given to initialise; a triangle adds its
\* clipped contribution exactly when its ray was issued and the scene
\* reported no hit; every issued ray is counted, hit or not.
C12_OcclusionOutcome ==
    Done =>
        /\ \E dist_search \in DistSearchs :
               terrain.dist_search_cl = Mul(dist_search, 1000 * Scale)
        /\ \A idx \in Cells(terrain) :
               /\ \A k \in DOMAIN log[idx].rays :
                      /\ RayFor(log[idx].rays[k]).tnear = 0
                      /\ RayFor(log[idx].rays[k]).tfar
                           = ToFloat(terrain.dist_search_cl)
               /\ {log[idx].added[k] : k \in DOMAIN log[idx].added}
                    = {<< tri, Clipped(RayFor(tri)) >> :
                          tri \in {x \in TrisOf(log[idx].rays) :
                                      ~Hit(terrain.scene, call.sun, x)}}
               /\ Len(log[idx].added)
                    = Cardinality({x \in TrisOf(log[idx].rays) :
                                      ~Hit(terrain.scene, call.sun, x)})
        /\ num_rays = SumRays(NumElem(terrain) - 1)

C12_Witness ==
    /\ Done
    /\ terrain.scene = "alternate"
    /\ \E idx \in Cells(terrain) :
           /\ log[idx].added # << >>
           /\ Len(log[idx].added) < Len(log[idx].rays)
           /\ num_rays >= Len(log[idx].rays)

\* the array the call in the current state would have left had initialise
\* been given the clip bound sw_dir_cor_max instead, all else equal
OutWithMax(sw_dir_cor_max) ==
    RunEngine([terrain EXCEPT !.sw_dir_cor_max_cl = sw_dir_cor_max],
              terrain.scene, call.engine, call.sun, call.refrac_cor, out0)

\* C13: raising sw_dir_cor_max, all other inputs and the occlusion results
\* fixed, lowers no unmasked cell of the returned array and leaves masked
\* cells NaN.
C13_ClipMonotone ==
    Done =>
        \A sw_dir_cor_max \in ClipBounds :
            sw_dir_cor_max >= terrain.sw_dir_cor_max_cl =>
                \A idx \in Cells(terrain) :
                    IF Unmasked(idx)
                    THEN Leq(out[idx], OutWithMax(sw_dir_cor_max)[idx])
                    ELSE /\ IsNaN(out[idx])
                         /\ IsNaN(OutWithMax(sw_dir_cor_max)[idx])

\* every triangle of the inner domain is flat: tilted and horizontal
\* triangle have the same normal and the same area
FlatTerrain ==
    \A idx \in Cells(terrain) :
        \A t \in TriIds :
            /\ RayAt(idx, t, 0).norm_tilt = RayAt(idx, t, 0).norm_hori
            /\ RayAt(idx, t, 0).surf_enl_fac = Scale

\* the sun is above the ang_max horizon of every triangle
SunAboveHorizon ==
    \A idx \in Cells(terrain) :
        \A t \in TriIds :
            Gt(Dot(RayAt(idx, t, 0).norm_hori, RayAt(idx, t, 0).sun_true),
               terrain.dot_prod_min_cl)

\* C16: on flat terrain with a mask of ones, a scene that occludes nothing,
\* sw_dir_cor_max >= 1 and the sun above the ang_max horizon of every
\* triangle, every cell of the returned array is 1, in each engine.
C16_FlatLimit ==
    (/\ Done
     /\ FlatTerrain
     /\ \A idx \in Cells(terrain) : Unmasked(idx)
     /\ terrain.scene = "none"
     /\ terrain.sw_dir_cor_max_cl >= Scale
     /\ SunAboveHorizon)
      => \A idx \in Cells(terrain) : out[idx] = Scale

\* the sun is exactly overhead of the t-th triangle of cell idx: the unit
\* vector to the sun is the normal of the horizontal triangle
Overhead(idx, t) == RayAt(idx, t, 0).sun_true = RayAt(idx, t, 0).norm_hori

\* C17: in sw_dir_cor with refrac_cor = 1, for a triangle the sun is exactly
\* overhead of, the apparent sun vector is the true one (no NaN from a zero
\* rotation axis) and the contribution is that of refrac_cor = 0.
C17_OverheadRefraction ==
    \A idx \in DOMAIN log :
        (/\ Processed(idx)
         /\ call.engine = "sw_dir_cor"
         /\ call.refrac_cor = 1)
          => \A t \in TriIds :
                 Overhead(idx, t) =>
                     /\ RayAt(idx, t, 1).dir = RayAt(idx, t, 0).dir
                     /\ RayAt(idx, t, 1).contrib = RayAt(idx, t, 0).contrib

FloatVec(v) == Vec(ToFloat(v.x), ToFloat(v.y), ToFloat(v.z))

\* C18: refraction leaves n_h, n_t, the ray origin and the enlargement
\* factor of every triangle as they are without it; a call that does not ask
\* for refraction (sw_dir_cor with refrac_cor = 0, and every call of the two
\* coherent engines) tests and traces the unrefracted sun vector.
C18_RefractionFrame ==
    \A idx \in DOMAIN log :
        Processed(idx) =>
            \A t \in TriIds :
                LET r0 == RayAt(idx, t, 0)
                    r1 == RayAt(idx, t, 1)
                IN  /\ r1.norm_hori = r0.norm_hori
                    /\ r1.norm_tilt = r0.norm_tilt
                    /\ r1.org = r0.org
                    /\ r1.surf_enl_fac = r0.surf_enl_fac
                    /\ r1.sun_true = r0.sun_true
                    /\ (call.engine # "sw_dir_cor" => call.refrac_cor = 0)
                    /\ (call.refrac_cor = 0 =>
                           /\ r0.dir = FloatVec(r0.sun_true)
                           /\ r0.dot_prod_hs = Dot(r0.norm_hori, r0.sun_true)
                           /\ r0.dot_prod_ts = Dot(r0.norm_tilt, r0.sun_true)
                           /\ \A k \in DOMAIN log[idx].added :
                                  log[idx].added[k][1] = r0.tri =>
                                      log[idx].added[k][2] = r0.contrib)

\* a call with refraction in which the apparent sun vector of a triangle
\* differs from the true one, and calls of the coherent engines
C18_Witness ==
    /\ Done
    /\ call.engine = "sw_dir_cor"
    /\ call.refrac_cor = 1
    /\ \E idx \in Cells(terrain) :
           /\ Unmasked(idx)
           /\ \E t \in TriIds :
                  /\ ~IsNaN(CallRay(idx, t).dir.z)
                  /\ CallRay(idx, t).dir # RayAt(idx, t, 0).dir
                  /\ CallRay(idx, t).org = RayAt(idx, t, 0).org
                  /\ TriOf(idx, t) \in TrisOf(log[idx].rays)

\* how often handle h was passed to rtcReleaseScene
Releases(h) == Cardinality({k \in DOMAIN embree.released : embree.released[k] = h})

\* C14: on one facade at most one scene is ever created, and exactly one
\* once a correction call has been made.
C14_OneScene ==
    /\ Len(embree.scenes) <= 1
    /\ ncalls > 0 => Len(embree.scenes) = 1

\* C15: once the facade is destroyed, every scene initialise built has been
\* released exactly once, and every handle released is one initialise built.
C15_SceneLifecycle ==
    embree.torn =>
        /\ \A h \in DOMAIN embree.scenes :
               Releases(h) = 1 /\ embree.scenes[h].refs = 0
        /\ \A k \in DOMAIN embree.released :
               embree.released[k] \in DOMAIN embree.scenes

\* C19: "triangle" builds a triangle geometry with a triangle index buffer,
\* "quad" a quad geometry with a quad index buffer, every other string the
\* grid geometry with the grid buffer.
C19_GeomType ==
    \A h \in DOMAIN embree.scenes :
        LET s == embree.scenes[h]
        IN  CASE s.geom_type = "triangle" ->
                   /\ s.rtc_geom_type = "RTC_GEOMETRY_TYPE_TRIANGLE"
                   /\ s.index_format = "RTC_FORMAT_UINT3"
              [] s.geom_type = "quad" ->
                   /\ s.rtc_geom_type = "RTC_GEOMETRY_TYPE_QUAD"
                   /\ s.index_format = "RTC_FORMAT_UINT4"
              [] OTHER ->
                   /\ s.rtc_geom_type = "RTC_GEOMETRY_TYPE_GRID"
                   /\ s.index_format = "RTC_FORMAT_GRID"

C19_Witness ==
    /\ Len(embree.scenes) = 2
    /\ embree.scenes[1].geom_type = "Triangle"
    /\ embree.scenes[1].rtc_geom_type = "RTC_GEOMETRY_TYPE_GRID"
    /\ embree.scenes[2].geom_type = "triangle"
    /\ embree.scenes[2].rtc_geom_type = "RTC_GEOMETRY_TYPE_TRIANGLE"
    /\ ncalls > 0

\* C20: no step of a correction call, from its entry to its return, writes
\* the outer or inner vertex buffer, the mask or the scene, and once the call
\* has been entered with the caller's sun position none writes that either;
\* only the output array changes.
C20_CallFrame ==
    [][(phase = "par" \/ ncalls' # ncalls)
          => /\ mem'.vert_grid = mem.vert_grid
             /\ mem'.vert_grid_in = mem.vert_grid_in
             /\ mem'.mask = mem.mask
             /\ embree' = embree
             /\ terrain' = terrain
             /\ (phase = "par" => mem'.sun_pos = mem.sun_pos)
             /\ (ncalls' # ncalls => mem'.sun_pos = SunPositions[call'.sun])]_vars

C20_Witness ==
    /\ Done
    /\ out # out0
    /\ mem.sun_pos = SunPositions[call.sun]
    /\ mem.mask = terrain.mask_cl
    /\ mem.vert_grid = Buffers[terrain.vert_grid_cl].outer
    /\ mem.vert_grid_in = Buffers[terrain.vert_grid_in_cl].inner
    /\ embree.scenes[embree.scene].refs = 1

\* the body of the reduction has run on cell idx
Visited(idx) ==
    /\ idx \in DOMAIN log
    /\ \E k \in DOMAIN log[idx].by : log[idx].by[k] # MainThread

\* C21: a correction call that has entered its parallel reduction returns,
\* and by then the body has run on every cell of every row.
C21_Terminates ==
    (phase = "par") ~>
        (phase = "idle" /\ \A idx \in Cells(terrain) : Visited(idx))

C21_Witness ==
    /\ Done
    /\ terrain.num_gc_y_cl > 1
    /\ \A idx \in Cells(terrain) : Visited(idx)
    /\ \E idx \in Cells(terrain) : ~Unmasked(idx)
    /\ \E idx \in Cells(terrain) : log[idx].by[1] # log[0].by[1]

\* the triangles the loops of an engine run the body for in grid cell (i, j),
\* in order
RECURSIVE BlocksTris(_, _)
BlocksTris(blocks, b) ==
    IF b > Len(blocks) THEN << >>
    ELSE BlockTris(blocks[b][1], blocks[b][2]) \o BlocksTris(blocks, b + 1)

CellTris(c, engine, i, j) ==
    IF engine = "sw_dir_cor_coherent_rp8"
    THEN BlocksTris(BlockSeq(c, i, j), 1)
    ELSE TriSeq(c, i, j)

\* the pixels and the triangles of grid cell (i, j)
CellPixels(c, i, j) ==
    (i * c.pixel_per_gc_cl .. (i + 1) * c.pixel_per_gc_cl - 1)
        \X (j * c.pixel_per_gc_cl .. (j + 1) * c.pixel_per_gc_cl - 1)

CellTriSet(c, i, j) ==
    {<< px[1], px[2], n >> : px \in CellPixels(c, i, j), n \in {0, 1}}

\* the pixels of the 2 x 2 block at blk
BlockPixels(blk) == (blk[1] .. blk[1] + 1) \X (blk[2] .. blk[2] + 1)

NoRepeat(seq) ==
    \A a, b \in DOMAIN seq : a # b => seq[a] # seq[b]

\* the 2 x 2 blocks of the cell cover each of its pixels once and stay
\* inside it, and each holds 8 different triangles
BlocksPartition(c, i, j) ==
    /\ \A px \in CellPixels(c, i, j) :
           Cardinality({b \in DOMAIN BlockSeq(c, i, j) :
                           px \in BlockPixels(BlockSeq(c, i, j)[b])}) = 1
    /\ \A b \in DOMAIN BlockSeq(c, i, j) :
           /\ BlockPixels(BlockSeq(c, i, j)[b]) \subseteq CellPixels(c, i, j)
           /\ Len(BlockTris(BlockSeq(c, i, j)[b][1],
                            BlockSeq(c, i, j)[b][2])) = 8
           /\ TrisOf(BlockTris(BlockSeq(c, i, j)[b][1],
                               BlockSeq(c, i, j)[b][2]))
                = {<< px[1], px[2], n >> :
                      px \in BlockPixels(BlockSeq(c, i, j)[b]), n \in {0, 1}}

\* C22: in an unmasked cell (i, j) an engine has been through, the loop body
\* ran for the triangles (k, m, n) of the cell's pixels, each once: their
\* number is pixel_per_gc^2 * 2, the rays issued name triangles of the cell
\* and none twice; the 2 x 2 blocks of the packet engine partition the cell's
\* pixels and hold 8 triangles each.
C22_Enumeration ==
    \A idx \in DOMAIN log :
        Processed(idx) =>
            /\ log[idx].ntri = NumTriPerGc(terrain)
            /\ Len(CellTris(terrain, call.engine, RowOf(idx), ColOf(idx)))
                 = NumTriPerGc(terrain)
            /\ TrisOf(CellTris(terrain, call.engine, RowOf(idx), ColOf(idx)))
                 = CellTriSet(terrain, RowOf(idx), ColOf(idx))
            /\ TrisOf(log[idx].rays)
                 \subseteq CellTriSet(terrain, RowOf(idx), ColOf(idx))
            /\ NoRepeat(log[idx].rays)
            /\ call.engine = "sw_dir_cor_coherent_rp8"
                 => BlocksPartition(terrain, RowOf(idx), ColOf(idx))

C22_Witness ==
    /\ Done
    /\ call.engine = "sw_dir_cor_coherent_rp8"
    /\ terrain.pixel_per_gc_cl = 4
    /\ Processed(0)
    /\ Len(BlockSeq(terrain, 0, 0)) = 4
    /\ TrisOf(log[0].rays) = CellTriSet(terrain, 0, 0)
    /\ Len(log[0].rays) = 32

\* the inner DEM is the outer one without its frame of offset_gc grid cells
DimsAgree(c) ==
    /\ c.offset_gc_cl >= 0
    /\ c.pixel_per_gc_cl >= 1
    /\ c.dem_dim_in_0_cl = c.dem_dim_0_cl - 2 * c.offset_gc_cl * c.pixel_per_gc_cl
    /\ c.dem_dim_in_1_cl = c.dem_dim_1_cl - 2 * c.offset_gc_cl * c.pixel_per_gc_cl

\* the offsets of the vertices of triangle tri in the outer DEM, at the
\* pixel shifted by pixel_per_gc * offset_gc, and in the inner DEM
OuterOffsets(c, tri) ==
    func_ptr(tri[3], c.dem_dim_1_cl,
             tri[1] + c.pixel_per_gc_cl * c.offset_gc_cl,
             tri[2] + c.pixel_per_gc_cl * c.offset_gc_cl)

InnerOffsets(c, tri) == func_ptr(tri[3], c.dem_dim_in_1_cl, tri[1], tri[2])

\* every float of the three vertices at the offsets ind lies in a buffer of
\* len floats
InBuffer(ind, buf, len) ==
    \A q \in 1 .. 3, d \in 0 .. 2 :
        /\ ind[q] + d >= 0
        /\ ind[q] + d < len
        /\ ind[q] + d \in DOMAIN buf

\* what the call computed for triangle tri before the sun vector is adjusted
GeomFor(tri) ==
    GeomTable[<< terrain.vert_grid_cl, call.sun, tri[1], tri[2], tri[3] >>]

\* C23: when the inner dimensions are the outer ones less 2 * offset_gc *
\* pixel_per_gc, every vertex offset read for a triangle of a cell an engine
\* has been through lies inside the outer (D0 * D1 * 3 floats) and the inner
\* buffer (D0_in * D1_in * 3 floats), the tilted triangle of pixel (k, m) is
\* the one of outer pixel (k + pixel_per_gc * offset_gc, m + pixel_per_gc *
\* offset_gc), which lies over the inner pixel, and the cell's index is below
\* num_gc_y * num_gc_x, inside the mask and the output array.
C23_IndexSafety ==
    DimsAgree(terrain) =>
        \A idx \in DOMAIN log :
            Processed(idx) =>
                /\ idx >= 0
                /\ idx < terrain.num_gc_y_cl * terrain.num_gc_x_cl
                /\ idx \in DOMAIN mem.mask
                /\ idx \in DOMAIN out
                /\ \A t \in TriIds :
                       /\ InBuffer(OuterOffsets(terrain, TriOf(idx, t)),
                                   mem.vert_grid,
                                   terrain.dem_dim_0_cl * terrain.dem_dim_1_cl * 3)
                       /\ InBuffer(InnerOffsets(terrain, TriOf(idx, t)),
                                   mem.vert_grid_in,
                                   terrain.dem_dim_in_0_cl
                                     * terrain.dem_dim_in_1_cl * 3)
                       /\ GeomFor(TriOf(idx, t)).cent
                            = TriProps(ReadTri(mem.vert_grid,
                                               OuterOffsets(terrain,
                                                            TriOf(idx, t)))).cent
                       /\ GeomFor(TriOf(idx, t)).cent.x
                            = GeomFor(TriOf(idx, t)).cent_base.x
                       /\ GeomFor(TriOf(idx, t)).cent.y
                            = GeomFor(TriOf(idx, t)).cent_base.y

\* a call on a DEM pair with a frame has done the last cell, whose last
\* triangle reads the last float of the inner buffer
C23_Witness ==
    /\ Done
    /\ DimsAgree(terrain)
    /\ terrain.offset_gc_cl > 0
    /\ Processed(NumElem(terrain) - 1)
    /\ InnerOffsets(terrain,
                    TriOf(NumElem(terrain) - 1, NumTriPerGc(terrain)))[2] + 2
         = terrain.dem_dim_in_0_cl * terrain.dem_dim_in_1_cl * 3 - 1
    /\ OuterOffsets(terrain,
                    TriOf(NumElem(terrain) - 1, NumTriPerGc(terrain)))[2]
         > InnerOffsets(terrain,
                        TriOf(NumElem(terrain) - 1, NumTriPerGc(terrain)))[2]

\* index of vertex (row, col) in a DEM of dim_1 columns
VertexIndex(dim_1, row, col) == row * dim_1 + col

\* the float offsets of the vertices an index triple names
Offsets3(tri) == << tri.v0 * 3, tri.v1 * 3, tri.v2 * 3 >>

\* the pixels of a DEM of dim_0 x dim_1 vertices
Pixels(dim_0, dim_1) == (0 .. dim_0 - 2) \X (0 .. dim_1 - 2)

\* the two index triples of pixel (i, j) in the scene s
TrianglesOfPixel(s, i, j) ==
    /\ s.index[2 * (i * (s.dem_dim_1 - 1) + j)]
         = [v0 |-> VertexIndex(s.dem_dim_1, i, j),
            v1 |-> VertexIndex(s.dem_dim_1, i, j + 1),
            v2 |-> VertexIndex(s.dem_dim_1, i + 1, j)]
    /\ s.index[2 * (i * (s.dem_dim_1 - 1) + j) + 1]
         = [v0 |-> VertexIndex(s.dem_dim_1, i, j + 1),
            v1 |-> VertexIndex(s.dem_dim_1, i + 1, j + 1),
            v2 |-> VertexIndex(s.dem_dim_1, i + 1, j)]
    /\ Offsets3(s.index[2 * (i * (s.dem_dim_1 - 1) + j)])
         = triangle_vert_ll(s.dem_dim_1, i, j)
    /\ Offsets3(s.index[2 * (i * (s.dem_dim_1 - 1) + j) + 1])
         = triangle_vert_ur(s.dem_dim_1, i, j)

\* the occluder triangle of the scene s that lies where the engines read the
\* tilted triangle tri
OccluderOf(c, s, tri) ==
    s.index[2 * ((tri[1] + c.pixel_per_gc_cl * c.offset_gc_cl)
                    * (s.dem_dim_1 - 1)
                 + tri[2] + c.pixel_per_gc_cl * c.offset_gc_cl) + tri[3]]

\* C24: a scene built with geom_type "triangle" holds (D0 - 1) * (D1 - 1) * 2
\* index triples; those of pixel (i, j), at 2 * (i * (D1 - 1) + j) and the
\* next, name the vertices {(i, j), (i, j + 1), (i + 1, j)} and {(i, j + 1),
\* (i + 1, j + 1), (i + 1, j)}, which are the offsets of triangle_vert_ll and
\* triangle_vert_ur divided by 3; the tilted triangle of every triangle of
\* every grid cell is such an occluder triangle.
C24_TriangleScene ==
    \A h \in DOMAIN embree.scenes :
        embree.scenes[h].geom_type = "triangle" =>
            /\ DOMAIN embree.scenes[h].index
                 = 0 .. (embree.scenes[h].dem_dim_0 - 1)
                          * (embree.scenes[h].dem_dim_1 - 1) * 2 - 1
            /\ \A px \in Pixels(embree.scenes[h].dem_dim_0,
                                embree.scenes[h].dem_dim_1) :
                   TrianglesOfPixel(embree.scenes[h], px[1], px[2])
            /\ \A idx \in Cells(terrain) :
                   \A tri \in CellTriSet(terrain, RowOf(idx), ColOf(idx)) :
                       Offsets3(OccluderOf(terrain, embree.scenes[h], tri))
                         = OuterOffsets(terrain, tri)

C24_Witness ==
    /\ Done
    /\ embree.scene \in DOMAIN embree.scenes
    /\ embree.scenes[embree.scene].geom_type = "triangle"
    /\ embree.scenes[embree.scene].dem_dim_0 = 9
    /\ embree.scenes[embree.scene].dem_dim_1 = 7
    /\ terrain.offset_gc_cl = 1
    /\ Cardinality(DOMAIN embree.scenes[embree.scene].index) = 96
    /\ embree.scenes[embree.scene].index[95] = [v0 |-> 55, v1 |-> 62, v2 |-> 61]

\* every vertex the index buffer of the scene s names is one of its D0 * D1
\* vertices
IndicesInRange(s) ==
    CASE s.geom_type = "triangle" ->
           \A n \in DOMAIN s.index :
               \A v \in {s.index[n].v0, s.index[n].v1, s.index[n].v2} :
                   v >= 0 /\ v < s.dem_dim_0 * s.dem_dim_1
      [] s.geom_type = "quad" ->
           \A n \in DOMAIN s.index :
               \A v \in {s.index[n].v0, s.index[n].v1, s.index[n].v2,
                         s.index[n].v3} :
                   v >= 0 /\ v < s.dem_dim_0 * s.dem_dim_1
      [] OTHER ->
           \A n \in DOMAIN s.index :
               /\ s.index[n].startVertexID >= 0
               /\ s.index[n].startVertexID
                    + (s.index[n].height - 1) * s.index[n].stride
                    + (s.index[n].width - 1) < s.dem_dim_0 * s.dem_dim_1

\* C25: a scene built with geom_type "quad" holds (D0 - 1) * (D1 - 1) quads,
\* the one of pixel (i, j) naming (i, j), (i, j + 1), (i + 1, j + 1),
\* (i + 1, j) in this order; a grid scene holds one descriptor with
\* startVertexID 0, stride D1, width D1, height D0; in every scene each vertex
\* index is below D0 * D1.
C25_QuadGridScene ==
    \A h \in DOMAIN embree.scenes :
        /\ embree.scenes[h].geom_type = "quad" =>
               /\ DOMAIN embree.scenes[h].index
                    = 0 .. (embree.scenes[h].dem_dim_0 - 1)
                             * (embree.scenes[h].dem_dim_1 - 1) - 1
               /\ \A px \in Pixels(embree.scenes[h].dem_dim_0,
                                   embree.scenes[h].dem_dim_1) :
                      embree.scenes[h].index[px[1] * (embree.scenes[h].dem_dim_1 - 1)
                                               + px[2]]
                        = [v0 |-> VertexIndex(embree.scenes[h].dem_dim_1,
                                              px[1], px[2]),
                           v1 |-> VertexIndex(embree.scenes[h].dem_dim_1,
                                              px[1], px[2] + 1),
                           v2 |-> VertexIndex(embree.scenes[h].dem_dim_1,
                                              px[1] + 1, px[2] + 1),
                           v3 |-> VertexIndex(embree.scenes[h].dem_dim_1,
                                              px[1] + 1, px[2])]
        /\ embree.scenes[h].rtc_geom_type = "RTC_GEOMETRY_TYPE_GRID" =>
               /\ DOMAIN embree.scenes[h].index = {0}
               /\ embree.scenes[h].index[0]
                    = [startVertexID |-> 0,
                       stride |-> embree.scenes[h].dem_dim_1,
                       width |-> embree.scenes[h].dem_dim_1,
                       height |-> embree.scenes[h].dem_dim_0]
        /\ IndicesInRange(embree.scenes[h])

C25_Witness ==
    /\ Len(embree.scenes) = 2
    /\ embree.scenes[1].geom_type = "quad"
    /\ embree.scenes[1].dem_dim_1 = 7
    /\ Cardinality(DOMAIN embree.scenes[1].index) = 48
    /\ embree.scenes[1].index[47] = [v0 |-> 54, v1 |-> 55, v2 |-> 62, v3 |-> 61]
    /\ embree.scenes[2].geom_type = "grid"
    /\ embree.scenes[2].index[0].height = 9
    /\ ncalls > 0

\* triangle t of grid cell idx passed both self-shadow tests of the call
Passed(idx, t) ==
    /\ Gt(CallRay(idx, t).dot_prod_hs, terrain.dot_prod_min_cl)
    /\ Gt(CallRay(idx, t).dot_prod_ts, 0)

\* the triangles of the cell, from the t-th on in the order of the loops,
\* that passed
RECURSIVE PassedFrom(_, _)
PassedFrom(idx, t) ==
    IF t > NumTriPerGc(terrain) THEN << >>
    ELSE IF Passed(idx, t)
         THEN << TriOf(idx, t) >> \o PassedFrom(idx, t + 1)
         ELSE PassedFrom(idx, t + 1)

\* the buffers rays[] and sw_dir_cor_ray[] of the coherent engine when the
\* loops over the triangles of grid cell idx are through
CoherentBuf(idx) ==
    CoherentRows(CellRays(terrain, call.sun, 0,
                          TriSeq(terrain, RowOf(idx), ColOf(idx))),
                 2 * terrain.pixel_per_gc_cl,
                 [rays |-> << >>, sw_dir_cor_ray |-> << >>, ntri |-> 0])

\* the pairs << triangle, stored contribution >> of the buffered rays the
\* scene left unoccluded, in buffer order, from ray k on
RECURSIVE LitPairs(_, _)
LitPairs(buf, k) ==
    IF k > Len(buf.rays) THEN << >>
    ELSE IF Hit(terrain.scene, call.sun, buf.rays[k].tri)
         THEN LitPairs(buf, k + 1)
         ELSE << << buf.rays[k].tri, buf.sw_dir_cor_ray[k] >> >>
                \o LitPairs(buf, k + 1)

BufferOf(idx, buf) ==
    /\ [n \in DOMAIN buf.rays |-> buf.rays[n].tri] = PassedFrom(idx, 1)
    /\ Len(buf.sw_dir_cor_ray) = Len(buf.rays)
    /\ Len(buf.rays) <= terrain.pixel_per_gc_cl * terrain.pixel_per_gc_cl * 2
    /\ \A n \in DOMAIN buf.rays :
           /\ buf.rays[n].id = n - 1
           /\ buf.sw_dir_cor_ray[n] = Clipped(RayFor(buf.rays[n].tri))
    /\ log[idx].rays = [n \in DOMAIN buf.rays |-> buf.rays[n].tri]
    /\ log[idx].stores = 1
    /\ log[idx].added = LitPairs(buf, 1)

\* C26: for a cell the coherent engine has been through, the ray buffer
\* holds the triangles that passed both self-shadow tests, in the order of
\* the loops, each with its buffer index as id and its contribution at the
\* same index; they are at most pixel_per_gc^2 * 2; the rays handed to the
\* scene are the buffer, once; the contributions added are the stored ones of
\* the rays whose tfar stayed > 0.
C26_CoherentBuffer ==
    call.engine = "sw_dir_cor_coherent" =>
        \A idx \in DOMAIN log :
            Processed(idx) => BufferOf(idx, CoherentBuf(idx))

\* a cell in which some triangles were skipped, some rays occluded and some
\* not
C26_Witness ==
    /\ Done
    /\ call.engine = "sw_dir_cor_coherent"
    /\ \E idx \in DOMAIN log :
           /\ Processed(idx)
           /\ Len(log[idx].rays) > 1
           /\ Len(log[idx].rays) < NumTriPerGc(terrain)
           /\ Len(log[idx].added) > 0
           /\ Len(log[idx].added) < Len(log[idx].rays)
           /\ CoherentBuf(idx).rays[2].tri # TriOf(idx, 2)

\* triangle tri passed both self-shadow tests of the call
PassedTri(tri) ==
    /\ Gt(RayFor(tri).dot_prod_hs, terrain.dot_prod_min_cl)
    /\ Gt(RayFor(tri).dot_prod_ts, 0)

\* the triangles among tris, from the t-th on, that passed
RECURSIVE PassedIn(_, _)
PassedIn(tris, t) ==
    IF t > Len(tris) THEN << >>
    ELSE IF PassedTri(tris[t]) THEN << tris[t] >> \o PassedIn(tris, t + 1)
         ELSE PassedIn(tris, t + 1)

\* the blocks of grid cell idx, and the triangles of its b-th block
BlocksOf(idx) == BlockSeq(terrain, RowOf(idx), ColOf(idx))

BlockTrisOf(idx, b) == BlockTris(BlocksOf(idx)[b][1], BlocksOf(idx)[b][2])

\* the packet engine's state in grid cell idx when b of its blocks are done
Rp8Upto(idx, b) ==
    Rp8Blocks(terrain, terrain.scene, call.sun, SubSeq(BlocksOf(idx), 1, b),
              Rp8Start)

\* the pairs << triangle, contribution >> of the lanes from n on that are
\* active and whose tfar stayed > 0
RECURSIVE LanePairs(_, _)
LanePairs(st, n) ==
    IF n > 7 THEN << >>
    ELSE IF st.valid8[n] = 0 - 1 /\ Gt(st.ray8[n].tfar, 0)
         THEN << << st.ray8[n].tri, st.sw_dir_cor_ray[n] >> >>
                \o LanePairs(st, n + 1)
         ELSE LanePairs(st, n + 1)

\* the state st after a block of triangles tris, entered in state prev
LanesOf(tris, prev, st) ==
    /\ st.num_rays_gc = Len(PassedIn(tris, 1))
    /\ st.num_rays_gc <= 8
    /\ \A n \in Lanes :
           /\ st.valid8[n] = (IF n < st.num_rays_gc THEN 0 - 1 ELSE 0)
           /\ st.valid8[n] = 0 - 1 <=> st.ray8[n].tri \in TrisOf(tris)
           /\ st.valid8[n] = 0 - 1 =>
                  /\ st.ray8[n].tri = PassedIn(tris, 1)[n + 1]
                  /\ st.sw_dir_cor_ray[n] = Clipped(RayFor(st.ray8[n].tri))
    /\ st.nrays = prev.nrays + st.num_rays_gc
    /\ st.added = prev.added \o LanePairs(st, 0)

\* C27: in every 2 x 2 block of a cell the packet engine has been through,
\* the lanes flagged valid are lanes 0 .. r - 1, r the number of the block's
\* triangles that passed both self-shadow tests (at most 8), every other lane
\* is flagged invalid again; a lane is valid iff it holds a ray of this
\* block; the contribution of a lane is added iff the lane is valid and its
\* tfar stayed > 0.
C27_PacketLanes ==
    (call.engine = "sw_dir_cor_coherent_rp8" /\ ~call.rejected) =>
        \A idx \in DOMAIN log :
            Processed(idx) =>
                /\ \A b \in DOMAIN BlocksOf(idx) :
                       LanesOf(BlockTrisOf(idx, b), Rp8Upto(idx, b - 1),
                               Rp8Upto(idx, b))
                /\ log[idx].added = Rp8Upto(idx, Len(BlocksOf(idx))).added
                /\ log[idx].rays = Rp8Upto(idx, Len(BlocksOf(idx))).rays

\* a cell of four blocks, one of them with skipped triangles, occluded and
\* lit rays
C27_Witness ==
    /\ Done
    /\ call.engine = "sw_dir_cor_coherent_rp8"
    /\ Processed(0)
    /\ Len(BlocksOf(0)) = 4
    /\ \E b \in DOMAIN BlocksOf(0) :
           /\ Rp8Upto(0, b).num_rays_gc \in 2 .. 7
           /\ Len(LanePairs(Rp8Upto(0, b), 0)) \in 1 .. Rp8Upto(0, b).num_rays_gc - 1

\* what ray8 and sw_dir_cor_ray may hold before they are written: tfar and
\* contribution of a lane that looks unoccluded with a contribution of 1,
\* occluded with one of 1, or holds no number at all
Garbage == {<< Scale, Scale >>, << NInf, Scale >>, << NaN, NaN >>}

\* the state st with every lane of ray8 and sw_dir_cor_ray overwritten
Scrub(st, g) ==
    [st EXCEPT !.ray8 = [n \in Lanes |-> [StaleLane EXCEPT !.tfar = g[1]]],
               !.sw_dir_cor_ray = [n \in Lanes |-> g[2]]]

\* the b-th block of grid cell idx run from the state st
BlockFrom(idx, b, st) ==
    Rp8Block(terrain.scene, call.sun, st,
             Rp8Fill(CellRays(terrain, call.sun, 0, BlockTrisOf(idx, b)),
                     Rp8Packet(st)))

\* what a block leaves beside the lanes: the accumulator, the pairs added,
\* the rays counted and issued
Sums(st) == << st.agg, st.added, st.nrays, st.rays >>

\* lane n of the state after block b of grid cell idx still holds an
\* unoccluded ray of an earlier block
StaleLit(idx, b, n) ==
    /\ b > 1
    /\ n >= Rp8Upto(idx, b).num_rays_gc
    /\ Rp8Upto(idx, b).ray8[n].tri \in TrisOf(BlockTrisOf(idx, b - 1))
    /\ Gt(Rp8Upto(idx, b).ray8[n].tfar, 0)
    /\ Gt(Rp8Upto(idx, b).sw_dir_cor_ray[n], 0)

\* block b of grid cell idx, entered in state prev, leaves the sums sums
\* whatever the lanes held
Oblivious(idx, b, prev, sums) ==
    /\ Sums(BlockFrom(idx, b, prev)) = sums
    /\ \A g \in Garbage : Sums(BlockFrom(idx, b, Scrub(prev, g))) = sums

\* C28: ray8 and sw_dir_cor_ray are carried from block to block of a cell
\* as they are, and what a block adds and counts does not depend on what
\* they held when the block began: overwriting all their lanes before the
\* block, with rays that look occluded or not and contributions of any kind,
\* leaves the block's accumulator, added pairs and ray count the same.
C28_StaleLanes ==
    (call.engine = "sw_dir_cor_coherent_rp8" /\ ~call.rejected) =>
        \A idx \in DOMAIN log :
            Processed(idx) =>
                /\ \A b \in DOMAIN BlocksOf(idx) :
                       Oblivious(idx, b, Rp8Upto(idx, b - 1),
                                 Sums(Rp8Upto(idx, b)))
                /\ log[idx].added = Rp8Upto(idx, Len(BlocksOf(idx))).added
                /\ out[idx] = ToFloat(Div(Rp8Upto(idx, Len(BlocksOf(idx))).agg,
                                          NumTriPerGc(terrain) * Scale))

\* after a block with skipped triangles a lane still holds an unoccluded ray
\* and a positive contribution of the block before
C28_Witness ==
    /\ Done
    /\ call.engine = "sw_dir_cor_coherent_rp8"
    /\ Processed(0)
    /\ \E b \in DOMAIN BlocksOf(0), n \in Lanes : StaleLit(0, b, n)

\* neither self-shadow test of the call skipped triangle t of grid cell idx
\* (a comparison with a NaN is false)
Survived(idx, t) ==
    /\ ~Leq(CallRay(idx, t).dot_prod_hs, terrain.dot_prod_min_cl)
    /\ ~Leq(CallRay(idx, t).dot_prod_ts, 0)

\* the triangles of the unmasked cells 0 .. idx that passed both self-shadow
\* tests of the call
RECURSIVE PassedUpTo(_)
PassedUpTo(idx) ==
    IF idx < 0 THEN 0
    ELSE (IF Unmasked(idx)
          THEN Cardinality({t \in TriIds : Survived(idx, t)}) ELSE 0)
           + PassedUpTo(idx - 1)

\* the rays the cells 0 .. idx of a single-threaded run hand to the scene
RECURSIVE CountUpTo(_, _)
CountUpTo(cells, idx) ==
    IF idx < 0 THEN 0 ELSE cells[idx].nrays + CountUpTo(cells, idx - 1)

\* the ray count engine reports for the configuration, mask and sun position
\* of the call
EngineCount(engine) ==
    CountUpTo(RunCells(terrain, terrain.scene, engine, call.sun, 0, out0),
              NumElem(terrain) - 1)

\* the engines that accept the configuration
Accepting ==
    IF terrain.pixel_per_gc_cl % 2 = 0 THEN Engines
    ELSE Engines \ {"sw_dir_cor_coherent_rp8"}

\* C29: the ray count a correction call reports is the number of triangles
\* of unmasked cells that passed both self-shadow tests, however the rows
\* were split into sub-ranges; it is the count each engine that accepts the
\* configuration reports for the same configuration, mask and sun position
\* (sw_dir_cor without refraction); it is at most num_tri = (D0_in - 1) *
\* (D1_in - 1) * 2, so the ratio logged lies in [0, 1].
C29_RayCount ==
    Done =>
        /\ num_rays = PassedUpTo(NumElem(terrain) - 1)
        /\ num_rays = SumRays(NumElem(terrain) - 1)
        /\ call.refrac_cor = 0 =>
               \A engine \in Accepting : EngineCount(engine) = num_rays
        /\ num_rays >= 0
        /\ num_rays <= terrain.num_tri_cl
        /\ terrain.num_tri_cl
             = (terrain.dem_dim_in_0_cl - 1) * (terrain.dem_dim_in_1_cl - 1) * 2
        /\ Leq(0, Div(num_rays * Scale, terrain.num_tri_cl * Scale))
        /\ Leq(Div(num_rays * Scale, terrain.num_tri_cl * Scale), Scale)

\* a call whose rows were split between two bodies, with a masked cell and
\* with triangles that passed and triangles that did not
C29_Witness ==
    /\ Done
    /\ num_rays > 0
    /\ num_rays < PassedUpTo(NumElem(terrain) - 1) + NumTriPerGc(terrain)
    /\ \E idx \in Cells(terrain) : ~Unmasked(idx)
    /\ \E idx \in Cells(terrain) :
           /\ Unmasked(idx)
           /\ Len(log[idx].rays) \in 1 .. NumTriPerGc(terrain) - 1
           /\ log[idx].by[1] # log[0].by[1]

\* the members hold what initialise was given as DEM pair scn, mask kind
\* mask, dist_search [km], sw_dir_cor_max and ang_max [degree], and what it
\* derives from them
Cached(c, scn, mask, dist_search, sw_dir_cor_max, ang_max) ==
    /\ c.vert_grid_cl = scn
    /\ c.dem_dim_0_cl = Scenarios[scn].dem_dim_0
    /\ c.dem_dim_1_cl = Scenarios[scn].dem_dim_1
    /\ c.vert_grid_in_cl = scn
    /\ c.dem_dim_in_0_cl = Scenarios[scn].dem_dim_in_0
    /\ c.dem_dim_in_1_cl = Scenarios[scn].dem_dim_in_1
    /\ c.pixel_per_gc_cl = Scenarios[scn].pixel_per_gc
    /\ c.offset_gc_cl = Scenarios[scn].offset_gc
    /\ c.sw_dir_cor_max_cl = sw_dir_cor_max
    /\ c.ang_max_cl = ang_max
    /\ c.ray_org_elev_cl = 100
    /\ c.num_gc_y_cl
         = (Scenarios[scn].dem_dim_in_0 - 1) \div Scenarios[scn].pixel_per_gc
    /\ c.num_gc_x_cl
         = (Scenarios[scn].dem_dim_in_1 - 1) \div Scenarios[scn].pixel_per_gc
    /\ c.dot_prod_min_cl = Cos(Mul(Div(ang_max, 180 * Scale), Pi))
    /\ c.dist_search_cl = Mul(1000 * Scale, dist_search)
    /\ c.mask_cl = MaskOf(mask, c.num_gc_y_cl * c.num_gc_x_cl)

\* C30: a step that changes a member of the facade is an initialise, after
\* which the members hold the configuration given and dot_prod_min =
\* cos(deg2rad(ang_max)), dist_search in metres = 1000 * dist_search in
\* kilometres, ray_org_elev = 0.1, num_gc_y = (D0_in - 1) / pixel_per_gc and
\* num_gc_x = (D1_in - 1) / pixel_per_gc in integers; no step of a correction
\* call, from entry to return, changes any of them.
C30_ConfigCached ==
    [][/\ terrain' # terrain =>
              /\ phase = "idle" /\ phase' = "idle" /\ ncalls' = ncalls
              /\ \E scn \in ScnIds, mask \in MaskKinds,
                    dist_search \in DistSearchs,
                    sw_dir_cor_max \in ClipBounds, ang_max \in AngMaxs :
                     Cached(terrain', scn, mask, dist_search, sw_dir_cor_max,
                            ang_max)
       /\ (phase = "par" \/ phase' = "par" \/ ncalls' # ncalls)
              => terrain' = terrain]_vars

\* the second of two correction calls has returned on a configuration in
\* which the division leaves a remainder and the angle is not 90 degrees
C30_Witness ==
    /\ Done
    /\ ncalls = 2
    /\ terrain.dem_dim_in_0_cl = 6
    /\ terrain.pixel_per_gc_cl = 4
    /\ terrain.num_gc_y_cl = 1
    /\ terrain.ang_max_cl = 60 * Scale
    /\ terrain.dot_prod_min_cl \in 499 .. 501
    /\ terrain.dist_search_cl = 20 * Scale
    /\ terrain.ray_org_elev_cl = 100
====
